---- MODULE Spec2Model ----
(***************************************************************************)
(* A model of the go-ioc dependency injection container (package ioc):     *)
(* the binding table with its override policy, key resolution, the lazy    *)
(* lifecycle of entities under their own lock, the parent chain, scope     *)
(* providers, and the resolving operations Get, Call and AutoWire.         *)
(***************************************************************************)
EXTENDS Integers, Sequences, FiniteSets, TLC

(***************************************************************************)
(* Bounds of the model.                                                    *)
(***************************************************************************)
\* number of concurrent callers (goroutines) that resolve
NProcs == 2
\* entities allocated by bind operations and providers, beyond construction
MaxBound == 2
\* factory invocations counted per entity
MaxCalls == 2
\* containers created by Extend, beyond the root made by New
MaxChildren == 1
\* resolving operations started over a run
MaxOps == 2
\* nested parent.Get calls of one lookup the stack of a goroutine has room for
MaxDepth == 3

Procs == 1..NProcs

(***************************************************************************)
(* Types and keys.  A type is named by a string; Kind gives its            *)
(* reflect.Kind and Elem the type under a pointer.                         *)
(***************************************************************************)
Types == {"Container", "Context", "Binder", "Resolver", "I", "U", "V", "PU", "PI", "PV", "N", "S",
          "L", "M", "A", "F"}

Kind(t) ==
    CASE t \in {"Container", "Context", "Binder", "Resolver", "I"} -> "Interface"
      [] t \in {"U", "V"} -> "Struct"
      [] t \in {"PU", "PI", "PV"} -> "Ptr"
      [] t = "N" -> "Int"
      [] t = "L" -> "Slice"
      [] t = "M" -> "Map"
      [] t = "A" -> "Array"
      [] t = "F" -> "Func"
      [] OTHER -> "String"

Elem(t) == CASE t = "PU" -> "U" [] t = "PV" -> "V" [] OTHER -> "I"

PtrTo(t) == CASE t = "U" -> "PU" [] t = "V" -> "PV" [] OTHER -> "PI"

\* a key is a reflect.Type, a string, or a value of some type
TypeKey(t) == [form |-> "type", t |-> t]
StrKey(s) == [form |-> "str", t |-> s]
ValKey(t) == [form |-> "val", t |-> t]

StrNames == {"k", "I", "-", "", "@"}
AllKeys == {TypeKey(t) : t \in Types} \cup {StrKey(s) : s \in StrNames}
             \cup {ValKey(t) : t \in {"U", "PU", "PI"}}
NoKey == [form |-> "none", t |-> ""]

\* reflect.TypeOf(key): the runtime type of a key that is not itself a type
TypeOfKey(key) == IF key.form = "str" THEN "S" ELSE key.t

\* reflect.TypeOf(key).Kind() as BindWithKey sees it: a reflect.Type is a pointer
KeyKind(key) == IF key.form = "type" THEN "Ptr" ELSE Kind(TypeOfKey(key))

\* isValidKeyKind that lets every kind pass
isValidKeyKind_Any(kind) == kind = kind

isValidKeyKind(kind) == kind \in {"Struct", "Interface", "Ptr"}

\* resolveLookupKeys without the interface under a pointer as a candidate
resolveLookupKeys_NoInterface(lookupKey) ==
    LET isType == lookupKey.form = "type"
        krt == IF isType THEN lookupKey.t ELSE TypeOfKey(lookupKey)
        base == IF isType THEN <<lookupKey>> ELSE <<lookupKey, TypeKey(krt)>>
    IN  CASE Kind(krt) = "Ptr" ->
                [keys |-> base, possible |-> TypeKey(Elem(krt)), panics |-> FALSE]
          [] Kind(krt) = "Struct" /\ ~isType ->
                [keys |-> base, possible |-> TypeKey(PtrTo(krt)), panics |-> TRUE]
          [] OTHER ->
                [keys |-> base, possible |-> NoKey, panics |-> FALSE]

\* resolveLookupKeys that takes the type under any pointer as a candidate
resolveLookupKeys_AnyElem(lookupKey) ==
    LET isType == lookupKey.form = "type"
        krt == IF isType THEN lookupKey.t ELSE TypeOfKey(lookupKey)
        base == IF isType THEN <<lookupKey>> ELSE <<lookupKey, TypeKey(krt)>>
    IN  CASE Kind(krt) = "Ptr" ->
                [keys |-> Append(base, TypeKey(Elem(krt))), possible |-> NoKey, panics |-> FALSE]
          [] Kind(krt) = "Struct" /\ ~isType ->
                [keys |-> base, possible |-> TypeKey(PtrTo(krt)), panics |-> TRUE]
          [] OTHER ->
                [keys |-> base, possible |-> NoKey, panics |-> FALSE]

\* the candidates of a lookup key, in order, the suggested alternate key, and
\* whether computing them panics (Addr of an unaddressable struct value)
resolveLookupKeys(lookupKey) ==
    LET isType == lookupKey.form = "type"
        krt == IF isType THEN lookupKey.t ELSE TypeOfKey(lookupKey)
        base == IF isType THEN <<lookupKey>> ELSE <<lookupKey, TypeKey(krt)>>
    IN  CASE Kind(krt) = "Ptr" /\ Kind(Elem(krt)) = "Interface" ->
                [keys |-> Append(base, TypeKey(Elem(krt))), possible |-> NoKey, panics |-> FALSE]
          [] Kind(krt) = "Ptr" /\ Kind(Elem(krt)) # "Interface" ->
                [keys |-> base, possible |-> TypeKey(Elem(krt)), panics |-> FALSE]
          [] Kind(krt) = "Struct" /\ ~isType ->
                [keys |-> base, possible |-> TypeKey(PtrTo(krt)), panics |-> TRUE]
          [] OTHER ->
                [keys |-> base, possible |-> NoKey, panics |-> FALSE]

(***************************************************************************)
(* Values, initializers and entities.                                      *)
(***************************************************************************)
\* a value is nil, a literal object (named by lit), or the n-th object
\* produced by the factory of entity e
NoVal == [e |-> 0, n |-> 0, lit |-> ""]
Lit(s) == [e |-> 0, n |-> 0, lit |-> s]
Made(e, n) == [e |-> e, n |-> n, lit |-> ""]

\* an initializer: nil, a func (its first result type, its parameter types,
\* its number of results, and the literal it always returns, if any), or a
\* pre-built instance of a type
NilInit == [kind |-> "nil", out |-> "", params |-> <<>>, nout |-> 0, ret |-> ""]
Func(out, params) == [kind |-> "func", out |-> out, params |-> params, nout |-> 2, ret |-> ""]
FuncRet(out, lit) == [kind |-> "func", out |-> out, params |-> <<>>, nout |-> 1, ret |-> lit]
FuncNoOut == [kind |-> "func", out |-> "", params |-> <<>>, nout |-> 0, ret |-> ""]
Inst(t, lit) == [kind |-> "inst", out |-> t, params |-> <<>>, nout |-> 0, ret |-> lit]


\* the initializers and literal values the environment binds
BindInits == {Func("U", <<>>), Func("N", <<>>), FuncNoOut, NilInit, Inst("PU", "pu0"),
              Func("L", <<>>), Func("F", <<>>), Inst("M", "m0")}
BindKeys == {TypeKey("I"), StrKey("k")}
KeyInits == {Func("I", <<"U">>), NilInit, Inst("PU", "pu0"), FuncNoOut}
BindValues == {Lit("v1"), NoVal}
ValueKeys == {StrKey("k"), StrKey("@")}
\* the predicate of a bind: none, a func returning bool ("true", "false",
\* or "fail", with a parameter bound nowhere), or a func returning
\* (bool, error) ("pairTrue": true and nil, "pairFail": an error)
Conds == {"none", "true", "false", "fail", "pairTrue", "pairFail"}

Containers == 1..(1 + MaxChildren)

VARIABLES
    nconts,     \* the containers created so far are 1..nconts
    parent,     \* parent[c]: the parent container of c, 0 if none
    entities,   \* entities[c][key]: the entity bound under key in c, 0 if none
    heap,       \* the Entity objects allocated so far
    elock,      \* elock[e]: the caller holding e.lock, 0 if free
    calls,      \* calls[e]: invocations of e's factory started so far
    running,    \* running[e]: invocations of e's factory in progress
    failed,     \* failed[e]: invocations of e's factory that cached nothing
    provs,      \* the providers created so far, each a list of entities
    procs,      \* procs[p]: the call stack and the result of caller p
    nops,       \* resolving operations started so far
    last,       \* the latest binding or query operation and its outcome
    lock,       \* lock[c]: the caller holding impl.lock of c for writing, 0 if none
    objects,    \* containerImpl.objects: the entity bound under each key
    objectSlices \* containerImpl.objectSlices: the entities in binding order

vars == <<nconts, parent, entities, heap, elock, calls, running, failed, provs, procs, nops, last,
          lock, objects, objectSlices>>

Ents == 1..Len(heap)

\* newEntity that makes every entity overridable
newEntity_AlwaysOverridable(c, key, init, prototype, override) ==
    [key |-> key, init |-> init, value |-> NoVal, prototype |-> prototype,
     overridable |-> TRUE, c |-> c]

newEntity(c, key, init, prototype, override) ==
    [key |-> key, init |-> init, value |-> NoVal, prototype |-> prototype,
     overridable |-> override, c |-> c]

\* the construction-time bindings of New and Extend
SelfInit(t, c) == FuncRet(t, IF t = "Context" THEN "background" ELSE "container" \o ToString(c))

NewKeys == <<"Container", "Context", "Binder", "Resolver">>

\* the outcome of the latest step when it was a binding or a query: the
\* operation, its container, key, override request and predicate, its
\* result, and what the message of an InvalidArgs error adds when the model
\* tells it apart
NoLast == [op |-> "none", c |-> 0, key |-> NoKey, override |-> FALSE, cond |-> "none", res |-> "", msg |-> ""]

\* an error: the kind its message starts with, the kind of the root cause
\* and the key its message names, the kinds errors.Is finds in its chain
\* (made by %w), the struct field AutoWire prefixed, 0 if none, and the
\* alternate key an ObjectNotFound message suggests
NoErr == [kind |-> "", cause |-> "", key |-> NoKey, is |-> {}, field |-> 0, possible |-> NoKey]
Err(kind, cause, key) ==
    [kind |-> kind, cause |-> cause, key |-> key, is |-> {kind}, field |-> 0, possible |-> NoKey]

\* the outcome of a resolving operation: its status, the operation, the
\* values it obtained with the entities that supplied them, and its error
\* for AutoWire also the fields of the struct and what was written to each
NoRes == [st |-> "idle", op |-> "", c |-> 0, keys |-> <<>>, prov |-> 0, from |-> <<>>, args |-> <<>>, err |-> NoErr,
          fields |-> <<>>, target |-> <<>>, ret |-> "none"]

Idle == [stack |-> <<>>, res |-> NoRes]

Init ==
    /\ nconts = 1
    /\ parent = [c \in Containers |-> 0]
    /\ heap = [i \in 1..4 |-> newEntity(1, TypeKey(NewKeys[i]), SelfInit(NewKeys[i], 1), FALSE, FALSE)]
    /\ entities = [c \in Containers |-> [k \in AllKeys |->
                      IF c = 1 /\ \E i \in 1..4 : k = TypeKey(NewKeys[i])
                      THEN CHOOSE i \in 1..4 : k = TypeKey(NewKeys[i]) ELSE 0]]
    /\ elock = [i \in 1..4 |-> 0]
    /\ calls = [i \in 1..4 |-> 0]
    /\ running = [i \in 1..4 |-> 0]
    /\ failed = [i \in 1..4 |-> 0]
    /\ provs = <<>>
    /\ procs = [p \in Procs |-> Idle]
    /\ nops = 0
    /\ last = NoLast
    /\ lock = [c \in Containers |-> 0]
    /\ objects = <<>>
    /\ objectSlices = <<>>

\* entities allocated by the environment's binds and providers so far
Allocated == Len(heap) - 4 - (nconts - 1)

\* allocate one more entity
Alloc(ent) ==
    /\ heap' = Append(heap, ent)
    /\ elock' = Append(elock, 0)
    /\ calls' = Append(calls, 0)
    /\ running' = Append(running, 0)
    /\ failed' = Append(failed, 0)

HeapUnchanged == UNCHANGED <<heap, elock, calls, running, failed>>

(***************************************************************************)
(* Binding.                                                                *)
(***************************************************************************)
\* WithCondition: a predicate with two results is accepted only if the type
\* of the second is reflect.TypeOf(errors.New("")), the pointer type
\* *errors.errorString, which the interface type error of a
\* func(...) (bool, error) is not: the call panics
WithCondition(cond) == IF cond \in {"pairTrue", "pairFail"} THEN "panic" ELSE "ok"

\* matched that takes every predicate for true
matched_Always(cond) == "matched"

\* conditional.matched: the predicate is run through Call; "fail" is a
\* predicate with a parameter of a type bound nowhere, whose Call fails; with
\* two results, the second is asserted to be an error, which panics on nil
matched(cond) ==
    CASE cond \in {"none", "true"} -> "matched"
      [] cond = "false" -> "unmatched"
      [] cond = "pairTrue" -> "panic"
      [] cond = "pairFail" -> "PredicateError"
      [] OTHER -> "ArgsNotInstanced"

\* bindWithOverride without the test of the existing entity's flag
bindOutcome_Unchecked(c, key, cond) ==
    IF matched(cond) # "matched" THEN (IF matched(cond) = "unmatched" THEN "skipped" ELSE matched(cond))
    ELSE "bound"

\* the outcome of bindWithOverride, before it touches the table
bindOutcome(c, key, cond) ==
    IF matched(cond) # "matched" THEN (IF matched(cond) = "unmatched" THEN "skipped" ELSE matched(cond))
    ELSE IF entities[c][key] # 0 /\ ~heap[entities[c][key]].overridable THEN "RepeatedBind"
    ELSE "bound"

\* bindWithOverride that lets the new call's override request decide
bindWithOverride_NewFlag(c, key, init, prototype, override, cond, op) ==
    LET out == IF bindOutcome(c, key, cond) \notin {"bound", "RepeatedBind"} THEN bindOutcome(c, key, cond)
               ELSE IF entities[c][key] # 0 /\ ~override THEN "RepeatedBind" ELSE "bound"
    IN  /\ last' = [op |-> op, c |-> c, key |-> key, override |-> override, cond |-> cond, res |-> out, msg |-> ""]
        /\ IF out = "bound"
           THEN /\ Allocated < MaxBound
                /\ Alloc(newEntity(c, key, init, prototype, override))
                /\ entities' = [entities EXCEPT ![c][key] = Len(heap) + 1]
           ELSE /\ HeapUnchanged
                /\ UNCHANGED entities
        /\ UNCHANGED <<lock, objects, objectSlices, nconts, parent, provs, procs, nops>>

\* bindWithOverride whose new entity takes over the value cached by the
\* entity it replaces
bindWithOverride_KeepsValue(c, key, init, prototype, override, cond, op) ==
    LET out == bindOutcome(c, key, cond)
        old == IF entities[c][key] # 0 THEN heap[entities[c][key]].value ELSE NoVal
    IN  /\ last' = [op |-> op, c |-> c, key |-> key, override |-> override, cond |-> cond, res |-> out, msg |-> ""]
        /\ IF out = "bound"
           THEN /\ Allocated < MaxBound
                /\ Alloc([newEntity(c, key, init, prototype, override) EXCEPT !.value = old])
                /\ entities' = [entities EXCEPT ![c][key] = Len(heap) + 1]
           ELSE /\ HeapUnchanged
                /\ UNCHANGED entities
        /\ UNCHANGED <<lock, objects, objectSlices, nconts, parent, provs, procs, nops>>

\* bindWithOverride that stores the entity in the parent's table as well
bindWithOverride_IntoParent(c, key, init, prototype, override, cond, op) ==
    LET out == bindOutcome(c, key, cond)
    IN  /\ last' = [op |-> op, c |-> c, key |-> key, override |-> override, cond |-> cond, res |-> out, msg |-> ""]
        /\ IF out = "bound"
           THEN /\ Allocated < MaxBound
                /\ Alloc(newEntity(c, key, init, prototype, override))
                /\ entities' = [d \in Containers |-> IF d = c \/ d = parent[c]
                                    THEN [entities[d] EXCEPT ![key] = Len(heap) + 1] ELSE entities[d]]
           ELSE /\ HeapUnchanged
                /\ UNCHANGED entities
        /\ UNCHANGED <<lock, objects, objectSlices, nconts, parent, provs, procs, nops>>

bindWithOverride(c, key, init, prototype, override, cond, op) ==
    LET out == bindOutcome(c, key, cond)
    IN  /\ last' = [op |-> op, c |-> c, key |-> key, override |-> override, cond |-> cond, res |-> out, msg |-> ""]
        /\ IF out = "bound"
           THEN /\ Allocated < MaxBound
                /\ Alloc(newEntity(c, key, init, prototype, override))
                /\ entities' = [entities EXCEPT ![c][key] = Len(heap) + 1]
           ELSE /\ HeapUnchanged
                /\ UNCHANGED entities
        /\ UNCHANGED <<lock, objects, objectSlices, nconts, parent, provs, procs, nops>>

\* building the Conditional argument of the bind panicked: the bind is not
\* reached and nothing changes
Panicked(op, c, key, override, cond) ==
    /\ last' = [op |-> op, c |-> c, key |-> key, override |-> override, cond |-> cond, res |-> "panic", msg |-> ""]
    /\ HeapUnchanged
    /\ UNCHANGED <<lock, objects, objectSlices, nconts, parent, entities, provs, procs, nops>>

\* a failed argument check: nothing but the outcome changes
RejectedFor(op, c, key, override, res, msg) ==
    /\ last' = [op |-> op, c |-> c, key |-> key, override |-> override, cond |-> "none", res |-> res,
                msg |-> msg]
    /\ HeapUnchanged
    /\ UNCHANGED <<lock, objects, objectSlices, nconts, parent, entities, provs, procs, nops>>

Rejected(op, c, key, override, res) == RejectedFor(op, c, key, override, res, "")

\* the factory bound for an initializer: a func as is, an instance wrapped
\* in a func that returns it
initFunc(init) == IF init.kind = "func" THEN init ELSE FuncRet(init.out, init.ret)

\* a check of the results that lets every initializer pass
declaresNoResult_Never(init) == init # init

\* the initializer is a func with no result (NumOut() <= 0)
declaresNoResult(init) == init.kind = "func" /\ init.nout <= 0

Bind(c, init, prototype, override, cond) ==
    IF WithCondition(cond) = "panic"
    THEN Panicked("Bind", c, IF init.out = "" THEN NoKey ELSE TypeKey(init.out), override, cond)
    ELSE IF init.kind = "nil" THEN Rejected("Bind", c, NoKey, override, "InvalidArgs")
    ELSE IF declaresNoResult(init) THEN RejectedFor("Bind", c, NoKey, override, "InvalidArgs", "but got 0")
    ELSE IF ~isValidKeyKind(Kind(init.out)) THEN Rejected("Bind", c, TypeKey(init.out), override, "InvalidArgs")
    ELSE bindWithOverride(c, TypeKey(init.out), initFunc(init), prototype, override, cond, "Bind")

BindWithKey(c, key, init, prototype, override, cond) ==
    IF WithCondition(cond) = "panic" THEN Panicked("BindWithKey", c, key, override, cond)
    ELSE IF init.kind = "nil" THEN Rejected("BindWithKey", c, key, override, "InvalidArgs")
    ELSE IF ~isValidKeyKind(KeyKind(key)) THEN Rejected("BindWithKey", c, key, override, "InvalidArgs")
    ELSE IF declaresNoResult(init) THEN RejectedFor("BindWithKey", c, key, override, "InvalidArgs", "but got 0")
    \* an instance is wrapped by WithCondition with the method value matched,
    \* a (bool, error) func, whose second result type WithCondition refuses
    ELSE IF init.kind # "func" THEN Panicked("BindWithKey", c, key, override, cond)
    ELSE bindWithOverride(c, key, initFunc(init), prototype, override, cond, "BindWithKey")

\* bindValueOverride whose entity can always be replaced by a later bind
bindValueOverride_Replaceable(c, key, value, override) ==
    IF value = NoVal THEN Rejected("BindValue", c, key, override, "InvalidArgs")
    ELSE IF key.t = "" \/ key.t = "@" THEN Rejected("BindValue", c, key, override, "InvalidArgs")
    ELSE LET out == IF entities[c][key] # 0 /\ ~heap[entities[c][key]].overridable
                    THEN "RepeatedBind" ELSE "bound"
         IN  /\ last' = [op |-> "BindValue", c |-> c, key |-> key, override |-> override, cond |-> "none", res |-> out, msg |-> ""]
             /\ IF out = "bound"
                THEN /\ Allocated < MaxBound
                     /\ Alloc([key |-> key, init |-> NilInit, value |-> value, prototype |-> FALSE,
                               overridable |-> TRUE, c |-> c])
                     /\ entities' = [entities EXCEPT ![c][key] = Len(heap) + 1]
                ELSE /\ HeapUnchanged
                     /\ UNCHANGED entities
             /\ UNCHANGED <<lock, objects, objectSlices, nconts, parent, provs, procs, nops>>

bindValueOverride(c, key, value, override) ==
    IF value = NoVal THEN Rejected("BindValue", c, key, override, "InvalidArgs")
    ELSE IF key.t = "" \/ key.t = "@" THEN Rejected("BindValue", c, key, override, "InvalidArgs")
    ELSE LET out == IF entities[c][key] # 0 /\ ~heap[entities[c][key]].overridable
                    THEN "RepeatedBind" ELSE "bound"
         IN  /\ last' = [op |-> "BindValue", c |-> c, key |-> key, override |-> override, cond |-> "none", res |-> out, msg |-> ""]
             /\ IF out = "bound"
                THEN /\ Allocated < MaxBound
                     /\ Alloc([key |-> key, init |-> NilInit, value |-> value, prototype |-> FALSE,
                               overridable |-> override, c |-> c])
                     /\ entities' = [entities EXCEPT ![c][key] = Len(heap) + 1]
                ELSE /\ HeapUnchanged
                     /\ UNCHANGED entities
             /\ UNCHANGED <<lock, objects, objectSlices, nconts, parent, provs, procs, nops>>

\* CanOverride: the flag of the entity stored under key, or not found
\* CanOverride that answers true for every bound key
CanOverride_Always(c, key) ==
    IF \E e \in Ents : heap[e].key = key /\ entities[c][key] = e
    THEN [res |-> "ok", flag |-> TRUE]
    ELSE [res |-> "ObjectNotFound", flag |-> TRUE]

CanOverride(c, key) ==
    IF \E e \in Ents : heap[e].key = key /\ entities[c][key] = e
    THEN [res |-> "ok", flag |-> heap[entities[c][key]].overridable]
    ELSE [res |-> "ObjectNotFound", flag |-> TRUE]

(***************************************************************************)
(* Containers and providers.                                               *)
(***************************************************************************)
\* Extend that binds in the child all that New binds
Extend_LikeNew(c) ==
    /\ nconts < 1 + MaxChildren
    /\ nconts' = nconts + 1
    /\ parent' = [parent EXCEPT ![nconts + 1] = c]
    /\ heap' = heap \o [i \in 1..4 |-> newEntity(nconts + 1, TypeKey(NewKeys[i]), SelfInit(NewKeys[i], nconts + 1),
                                                 FALSE, FALSE)]
    /\ elock' = elock \o <<0, 0, 0, 0>>
    /\ calls' = calls \o <<0, 0, 0, 0>>
    /\ running' = running \o <<0, 0, 0, 0>>
    /\ failed' = failed \o <<0, 0, 0, 0>>
    /\ entities' = [entities EXCEPT ![nconts + 1] = [k \in AllKeys |->
                        IF \E i \in 1..4 : k = TypeKey(NewKeys[i])
                        THEN Len(heap) + (CHOOSE i \in 1..4 : k = TypeKey(NewKeys[i])) ELSE 0]]
    /\ last' = NoLast
    /\ UNCHANGED <<lock, objects, objectSlices, provs, procs, nops>>

\* Extend: a new container whose parent is c, with its own Container bound
Extend(c) ==
    /\ nconts < 1 + MaxChildren
    /\ nconts' = nconts + 1
    /\ parent' = [parent EXCEPT ![nconts + 1] = c]
    /\ Alloc(newEntity(nconts + 1, TypeKey("Container"), SelfInit("Container", nconts + 1), FALSE, FALSE))
    /\ entities' = [entities EXCEPT ![nconts + 1][TypeKey("Container")] = Len(heap) + 1]
    /\ last' = NoLast
    /\ UNCHANGED <<lock, objects, objectSlices, provs, procs, nops>>

ExtendFrom(c, p) ==
    /\ parent[c] # p
    /\ parent' = [parent EXCEPT ![c] = p]
    /\ last' = NoLast
    /\ HeapUnchanged
    /\ UNCHANGED <<lock, objects, objectSlices, nconts, entities, provs, procs, nops>>

\* Provider over a list of factories: newEntityWrapper makes of each a
\* singleton entity keyed by the factory's result type, owned by c and held
\* only by the provider, in the order of the factories
ProviderInits == {Func("U", <<>>)}
MaxProviders == 2

\* the entities of a new provider over inits
scopeEntities(c, inits) == [j \in 1..Len(inits) |-> newEntity(c, TypeKey(inits[j].out), inits[j], FALSE, TRUE)]

\* allocate the entities ents
AllocAll(ents) ==
    /\ heap' = heap \o ents
    /\ elock' = elock \o [j \in 1..Len(ents) |-> 0]
    /\ calls' = calls \o [j \in 1..Len(ents) |-> 0]
    /\ running' = running \o [j \in 1..Len(ents) |-> 0]
    /\ failed' = failed \o [j \in 1..Len(ents) |-> 0]

\* Provider that also binds its entity in the container's table
Provider_Binds(c, inits) ==
    /\ Len(provs) < MaxProviders
    /\ Allocated + Len(inits) <= MaxBound
    /\ AllocAll(scopeEntities(c, inits))
    /\ provs' = Append(provs, [j \in 1..Len(inits) |-> Len(heap) + j])
    /\ entities' = [entities EXCEPT ![c] = [k \in AllKeys |->
                        IF \E j \in 1..Len(inits) : TypeKey(inits[j].out) = k
                        THEN Len(heap) + (CHOOSE j \in 1..Len(inits) : TypeKey(inits[j].out) = k)
                        ELSE entities[c][k]]]
    /\ last' = NoLast
    /\ UNCHANGED <<lock, objects, objectSlices, nconts, parent, procs, nops>>

\* Provider that hands out the entities of an earlier provider over the same
\* factories
Provider_Shared(c, inits) ==
    /\ Len(provs) < MaxProviders
    /\ Allocated + Len(inits) <= MaxBound
    /\ IF \E a \in 1..Len(provs) : [j \in 1..Len(provs[a]) |-> heap[provs[a][j]].init] = inits
       THEN /\ provs' = Append(provs, provs[CHOOSE a \in 1..Len(provs) :
                                               [j \in 1..Len(provs[a]) |-> heap[provs[a][j]].init] = inits])
            /\ HeapUnchanged
       ELSE /\ AllocAll(scopeEntities(c, inits))
            /\ provs' = Append(provs, [j \in 1..Len(inits) |-> Len(heap) + j])
    /\ last' = NoLast
    /\ UNCHANGED <<lock, objects, objectSlices, nconts, parent, entities, procs, nops>>

Provider(c, inits) ==
    /\ Len(provs) < MaxProviders
    /\ Allocated + Len(inits) <= MaxBound
    /\ AllocAll(scopeEntities(c, inits))
    /\ provs' = Append(provs, [j \in 1..Len(inits) |-> Len(heap) + j])
    /\ last' = NoLast
    /\ UNCHANGED <<lock, objects, objectSlices, nconts, parent, entities, procs, nops>>

(***************************************************************************)
(* Resolution.  A caller's stack holds one frame per activation: the       *)
(* bottom frame is the operation (Get, Call, AutoWire), each frame above   *)
(* it an Entity.Value whose createValue resolves the factory's parameters. *)
(***************************************************************************)
\* a frame resolves keys[i..] on container c under provider prov (0: none);
\* cur and cprov are the container and provider lookupInstance is at
\* from[j] notes the entity bound under keys[j] in c when the frame was made,
\* n the number of the factory invocation a Value frame is running, hops the
\* nested parent.Get calls the lookup of the current key is in
Frame(op, c, keys, prov, e, pc) ==
    [op |-> op, c |-> c, keys |-> keys, i |-> 1, cur |-> c, prov |-> prov, cprov |-> prov, hops |-> 0,
     e |-> e, pc |-> pc, n |-> 0, args |-> <<>>, err |-> NoErr, fields |-> <<>>, target |-> <<>>,
     ret |-> "none",
     from |-> [j \in 1..Len(keys) |-> entities[c][keys[j]]]]

Top(p) == procs[p].stack[Len(procs[p].stack)]
Busy(p) == procs[p].stack # <<>>
Below(p) == SubSeq(procs[p].stack, 1, Len(procs[p].stack) - 1)

\* lookupEntity: the provider's entities first, in the provider's order, each
\* against the candidates in order; then the table, in candidate order
RECURSIVE firstInProvider(_, _)
firstInProvider(es, keys) ==
    IF es = <<>> THEN 0
    ELSE IF \E j \in 1..Len(keys) : heap[Head(es)].key = keys[j] THEN Head(es)
    ELSE firstInProvider(Tail(es), keys)

RECURSIVE firstInTable(_, _)
firstInTable(c, keys) ==
    IF keys = <<>> THEN 0
    ELSE IF entities[c][Head(keys)] # 0 THEN entities[c][Head(keys)]
    ELSE firstInTable(c, Tail(keys))

\* lookupEntity that asks the table before the provider
lookupEntity_TableFirst(c, keys, prov) ==
    IF firstInTable(c, keys) # 0 THEN firstInTable(c, keys)
    ELSE IF prov = 0 THEN 0 ELSE firstInProvider(provs[prov], keys)

lookupEntity(c, keys, prov) ==
    LET inProv == IF prov = 0 THEN 0 ELSE firstInProvider(provs[prov], keys)
    IN  IF inProv # 0 THEN inProv ELSE firstInTable(c, keys)

\* the parameter types of a factory, as lookup keys
ParamKeys(init) == [j \in 1..Len(init.params) |-> TypeKey(init.params[j])]

\* a struct field: its autowire tag ("" when it has none), its declared type
\* and whether its name is exported
Fd(tag, type, exported) == [tag |-> tag, type |-> type, exported |-> exported]

\* AutoWire that skips untagged fields only
skipsField_Untagged(tag) == tag = ""

\* the fields AutoWire passes over
skipsField(tag) == tag = "" \/ tag = "-"

\* the key AutoWire resolves for a field: its type for "@", else the tag
FieldKey(fd) == IF fd.tag = "@" THEN TypeKey(fd.type) ELSE StrKey(fd.tag)

\* the indices of the fields AutoWire resolves, in declaration order
WiredAt(fields) ==
    LET wired(i) == ~skipsField(fields[i].tag)
    IN  SelectSeq([i \in 1..Len(fields) |-> i], wired)

WiredKeys(fields) == [j \in 1..Len(WiredAt(fields)) |-> FieldKey(fields[WiredAt(fields)[j]])]

\* the type of the values entity e supplies: a bound value is a string
\* here, a factory supplies its first result type
valueType(e) == IF heap[e].init.kind = "nil" THEN "S" ELSE heap[e].init.out

\* the error a frame reports when resolving its key fails with err: Get
\* returns it as it is; instanceOfType (Call, createValue, "@" fields) makes
\* an ArgsNotInstanced error around the text of err, err.Error(), so that
\* the message still names what err named while err leaves the chain
\* instanceOfType that reports ArgsNotInstanced without the text of err
wrapErr_Bare(f, err) ==
    IF f.op = "Get" \/ (f.op = "AutoWire" /\ f.keys[f.i].form = "str") THEN err
    ELSE Err("ArgsNotInstanced", "ArgsNotInstanced", NoKey)

wrapErr(f, err) ==
    IF f.op = "Get" \/ (f.op = "AutoWire" /\ f.keys[f.i].form = "str") THEN err
    ELSE [Err("ArgsNotInstanced", err.cause, err.key) EXCEPT !.possible = err.possible]

\* the frame takes the value val, supplied by entity e, for its key i;
\* AutoWire sets the field at once, and Set panics on the zero reflect.Value
\* that a nil value gives
\* or on a value that is not assignable to the field
takeArg(f, val, e) ==
    IF f.op = "AutoWire" /\ (val = NoVal \/ valueType(e) # f.fields[WiredAt(f.fields)[f.i]].type)
    THEN [f EXCEPT !.pc = "panic"]
    ELSE [f EXCEPT !.args = Append(f.args, [v |-> val, e |-> e]), !.i = f.i + 1,
                   !.cur = f.c, !.cprov = f.prov, !.hops = 0,
                   !.target = IF f.op = "AutoWire" THEN [f.target EXCEPT ![WiredAt(f.fields)[f.i]] = val]
                              ELSE f.target]

\* funcArgs that leaves an unresolved parameter nil and goes on
failFrame_Continues(f, err) == [f EXCEPT !.args = Append(f.args, [v |-> NoVal, e |-> 1]), !.i = f.i + 1]

\* AutoWire that returns the error without the field's name
failFrame_Unnamed(f, err) == [f EXCEPT !.pc = "fail", !.err = wrapErr(f, err)]

\* AutoWire formats the error with %v after the field's name, which leaves
\* no error in the chain
failFrame(f, err) ==
    [f EXCEPT !.pc = "fail",
              !.err = IF f.op = "AutoWire"
                      THEN [wrapErr(f, err) EXCEPT !.is = {}, !.field = WiredAt(f.fields)[f.i]]
                      ELSE wrapErr(f, err)]

\* reflect's Call panics on the zero reflect.Value that a nil value gives
hasNilArg(f) == \E j \in 1..Len(f.args) : f.args[j].v = NoVal

\* reflect's Call panics on a value that is not assignable to the parameter:
\* what an entity found under the interface of a pointer-to-interface
\* parameter supplies is no pointer to that interface
hasUnassignableArg(f) ==
    \E j \in 1..Len(f.args) :
        /\ f.args[j].v # NoVal
        /\ f.keys[j].form = "type" /\ Kind(f.keys[j].t) = "Ptr"
        /\ valueType(f.args[j].e) # f.keys[j].t

\* Resolve that takes the last of the callable's results for its error
returnsError_Last(ret) == ret \in {"err", "pairErr"}

\* Resolve returns the callable's result when it is the only one, is not nil
\* and is an error
returnsError(ret) == ret = "err"

\* the operation ends once its own frame has failed or has all its values:
\* Get returns the value, Call invokes the callable with them, AutoWire has
\* written the fields
settle(stack) ==
    LET f == stack[1]
    IN  IF Len(stack) = 1 /\ (f.pc \in {"fail", "panic"} \/ f.i > Len(f.keys))
        THEN [stack |-> <<>>,
              res |-> [st |-> CASE f.pc = "fail" -> "err"
                                [] f.pc = "panic" -> "panic"
                                [] f.pc = "args" /\ f.op \in {"Call", "Resolve"} /\ (hasNilArg(f) \/ hasUnassignableArg(f)) -> "panic"
                                [] f.pc = "args" /\ f.op = "Resolve" /\ returnsError(f.ret) -> "err"
                                [] OTHER -> "ok",
                       op |-> f.op, c |-> f.c,
                       keys |-> f.keys, prov |-> f.prov, from |-> f.from, args |-> f.args,
                       err |-> IF f.pc = "args" /\ f.op = "Resolve" /\ ~hasNilArg(f) /\ ~hasUnassignableArg(f)
                                  /\ returnsError(f.ret)
                               THEN Err("CallbackError", "CallbackError", NoKey) ELSE f.err,
                       fields |-> f.fields, target |-> f.target, ret |-> f.ret]]
        ELSE [stack |-> stack, res |-> NoRes]

\* the locks a caller's frames hold
Held(p, e) == \E j \in 1..Len(procs[p].stack) :
                 LET f == procs[p].stack[j]
                 IN f.op = "Value" /\ f.e = e /\ ~heap[e].prototype /\ f.pc \in {"args", "run", "fail"}

StartOp(p, op, c, keys, prov) ==
    /\ ~Busy(p)
    /\ nops < MaxOps
    /\ c <= nconts
    /\ nops' = nops + 1
    /\ procs' = [procs EXCEPT ![p] = [stack |-> <<Frame(op, c, keys, prov, 0, "args")>>, res |-> NoRes]]
    /\ last' = NoLast
    /\ HeapUnchanged
    /\ UNCHANGED <<lock, objects, objectSlices, nconts, parent, entities, provs>>

Get(p, c, key) == StartOp(p, "Get", c, <<key>>, 0)

\* the results of a callable: none, a nil error, an error, a value that is
\* no error, or a value and an error
Rets == {"none", "nil", "err", "val", "pairErr"}

\* Resolve of a callable with these parameter types and these results
Resolve(p, c, params, ret) ==
    /\ ~Busy(p)
    /\ nops < MaxOps
    /\ c <= nconts
    /\ nops' = nops + 1
    /\ procs' = [procs EXCEPT ![p] = settle(<<[Frame("Resolve", c, [j \in 1..Len(params) |-> TypeKey(params[j])],
                                                      0, 0, "args") EXCEPT !.ret = ret]>>)]
    /\ last' = NoLast
    /\ HeapUnchanged
    /\ UNCHANGED <<lock, objects, objectSlices, nconts, parent, entities, provs>>

CallWithProvider(p, c, params, prov) ==
    /\ prov <= Len(provs)
    /\ StartOp(p, "Call", c, [j \in 1..Len(params) |-> TypeKey(params[j])], prov)

\* AutoWire on a pointer to a struct with these fields, none of them
\* written yet
AutoWire(p, c, fields) ==
    /\ ~Busy(p)
    /\ nops < MaxOps
    /\ c <= nconts
    /\ nops' = nops + 1
    /\ procs' = [procs EXCEPT ![p] = settle(<<[Frame("AutoWire", c, WiredKeys(fields), 0, 0, "args")
                        EXCEPT !.fields = fields, !.target = [i \in 1..Len(fields) |-> NoVal]]>>)]
    /\ last' = NoLast
    /\ HeapUnchanged
    /\ UNCHANGED <<lock, objects, objectSlices, nconts, parent, entities, provs>>

\* lookupInstance that hands no provider to the entity it found
valueScope_Dropped(f) == 0

\* obj.Value(provider): the entity found resolves its factory's parameters
\* under the provider of the lookup that found it
valueScope(f) == f.cprov

\* a parent that goes on with the provider of the call
parentScope_Kept(f) == f.cprov

\* impl.parent.Get(key): the parent looks the key up with no provider
parentScope(f) == 0

\* lookupEntity that reads the table without impl.lock.RLock()
readable_Unlocked(c) == c = c

\* impl.lock.RLock() returns once no writer holds the lock; lookupEntity
\* reads the provider and the table and unlocks within the same step
readable(c) == lock[c] = 0

\* one level of lookupInstance for the key the top frame is resolving
lookupInstance(p) ==
    /\ Busy(p)
    /\ LET f == Top(p)
           key == f.keys[f.i]
           r == resolveLookupKeys(key)
           e == lookupEntity(f.cur, r.keys, f.cprov)
       IN  /\ f.pc = "args"
           /\ f.i <= Len(f.keys)
           /\ r.panics \/ readable(f.cur)
           /\ IF r.panics
              THEN \* the panic unwinds the stack, the deferred unlocks run
                   /\ procs' = [procs EXCEPT ![p] = [stack |-> <<>>,
                          res |-> [NoRes EXCEPT !.st = "panic", !.op = procs[p].stack[1].op,
                                   !.c = procs[p].stack[1].c, !.keys = procs[p].stack[1].keys]]]
                   /\ elock' = [x \in Ents |-> IF Held(p, x) THEN 0 ELSE elock[x]]
              ELSE /\ elock' = IF e = 0 /\ parent[f.cur] # 0 /\ f.hops >= MaxDepth
                               THEN [x \in Ents |-> IF Held(p, x) THEN 0 ELSE elock[x]]
                               ELSE elock
                   /\ IF e # 0
                      THEN procs' = [procs EXCEPT ![p].stack = Append(@,
                                Frame("Value", heap[e].c, ParamKeys(heap[e].init), valueScope(f), e, "enter"))]
                      ELSE IF parent[f.cur] # 0 /\ f.hops >= MaxDepth
                      THEN \* no room for one more call: the runtime ends the program
                           procs' = [procs EXCEPT ![p] = [stack |-> <<>>,
                                res |-> [NoRes EXCEPT !.st = "overflow", !.op = procs[p].stack[1].op,
                                         !.c = procs[p].stack[1].c, !.keys = procs[p].stack[1].keys]]]
                      ELSE IF parent[f.cur] # 0
                      THEN procs' = [procs EXCEPT ![p].stack[Len(procs[p].stack)] =
                                [f EXCEPT !.cur = parent[f.cur], !.cprov = parentScope(f), !.hops = f.hops + 1]]
                      ELSE procs' = [procs EXCEPT ![p] = settle(Append(Below(p),
                                failFrame(f, [Err("ObjectNotFound", "ObjectNotFound", key)
                                                 EXCEPT !.possible = r.possible])))]
    /\ last' = NoLast
    /\ UNCHANGED <<lock, objects, objectSlices, nconts, parent, entities, heap, calls, running, failed, provs, nops>>

\* the top frame returns val, supplied by entity e, to the frame below
deliver(p, val, e) ==
    LET n == Len(procs[p].stack)
    IN  [procs EXCEPT ![p] = settle(Append(SubSeq(procs[p].stack, 1, n - 2),
                                           takeArg(procs[p].stack[n - 1], val, e)))]

\* the top frame returns the error err to the frame below
failBelow(p, err) ==
    LET n == Len(procs[p].stack)
    IN  [procs EXCEPT ![p] = settle(Append(SubSeq(procs[p].stack, 1, n - 2),
                                           failFrame(procs[p].stack[n - 1], err)))]

\* Value without the entity's lock: callers enter createValue side by side
Value_NoLock(p) ==
    /\ Busy(p)
    /\ LET f == Top(p)
           e == f.e
       IN  /\ f.op = "Value"
           /\ f.pc = "enter"
           /\ IF heap[e].prototype \/ heap[e].value = NoVal
              THEN /\ procs' = [procs EXCEPT ![p].stack[Len(procs[p].stack)] = [f EXCEPT !.pc = "args"]]
                   /\ elock' = IF heap[e].prototype THEN elock ELSE [elock EXCEPT ![e] = p]
              ELSE /\ procs' = deliver(p, heap[e].value, e)
                   /\ UNCHANGED elock
    /\ last' = NoLast
    /\ UNCHANGED <<lock, objects, objectSlices, nconts, parent, entities, heap, calls, running, failed, provs, nops>>

\* Value that never returns the cached value
Value_NoCache(p) ==
    /\ Busy(p)
    /\ LET f == Top(p)
           e == f.e
       IN  /\ f.op = "Value"
           /\ f.pc = "enter"
           /\ heap[e].prototype \/ elock[e] = 0
           /\ procs' = [procs EXCEPT ![p].stack[Len(procs[p].stack)] = [f EXCEPT !.pc = "args"]]
           /\ elock' = IF heap[e].prototype THEN elock ELSE [elock EXCEPT ![e] = p]
    /\ last' = NoLast
    /\ UNCHANGED <<lock, objects, objectSlices, nconts, parent, entities, heap, calls, running, failed, provs, nops>>

\* Entity.Value that invokes the factory on the first resolution only
Value_Once(p) ==
    /\ Busy(p)
    /\ LET f == Top(p)
           e == f.e
       IN  /\ f.op = "Value"
           /\ f.pc = "enter"
           /\ IF heap[e].prototype
              THEN /\ procs' = [procs EXCEPT ![p].stack[Len(procs[p].stack)] = [f EXCEPT !.pc = "args"]]
                   /\ UNCHANGED elock
              ELSE /\ elock[e] = 0
                   /\ IF heap[e].value # NoVal \/ calls[e] > 0
                      THEN /\ procs' = deliver(p, heap[e].value, e)
                           /\ UNCHANGED elock
                      ELSE /\ procs' = [procs EXCEPT ![p].stack[Len(procs[p].stack)] = [f EXCEPT !.pc = "args"]]
                           /\ elock' = [elock EXCEPT ![e] = p]
    /\ last' = NoLast
    /\ UNCHANGED <<lock, objects, objectSlices, nconts, parent, entities, heap, calls, running, failed, provs, nops>>

\* Entity.Value whose lock lets its holder in again
Value_Reentrant(p) ==
    /\ Busy(p)
    /\ LET f == Top(p)
           e == f.e
       IN  /\ f.op = "Value"
           /\ f.pc = "enter"
           /\ IF heap[e].prototype
              THEN /\ procs' = [procs EXCEPT ![p].stack[Len(procs[p].stack)] = [f EXCEPT !.pc = "args"]]
                   /\ UNCHANGED elock
              ELSE /\ elock[e] \in {0, p}
                   /\ IF heap[e].value # NoVal
                      THEN /\ procs' = deliver(p, heap[e].value, e)
                           /\ UNCHANGED elock
                      ELSE /\ procs' = [procs EXCEPT ![p].stack[Len(procs[p].stack)] = [f EXCEPT !.pc = "args"]]
                           /\ elock' = [elock EXCEPT ![e] = p]
    /\ last' = NoLast
    /\ UNCHANGED <<lock, objects, objectSlices, nconts, parent, entities, heap, calls, running, failed, provs, nops>>

\* Entity.Value with one lock for all the entities
Value_OneLock(p) ==
    /\ Busy(p)
    /\ LET f == Top(p)
           e == f.e
       IN  /\ f.op = "Value"
           /\ f.pc = "enter"
           /\ IF heap[e].prototype
              THEN /\ procs' = [procs EXCEPT ![p].stack[Len(procs[p].stack)] = [f EXCEPT !.pc = "args"]]
                   /\ UNCHANGED elock
              ELSE /\ \A x \in Ents : elock[x] \in {0, p}
                   /\ elock[e] = 0
                   /\ IF heap[e].value # NoVal
                      THEN /\ procs' = deliver(p, heap[e].value, e)
                           /\ UNCHANGED elock
                      ELSE /\ procs' = [procs EXCEPT ![p].stack[Len(procs[p].stack)] = [f EXCEPT !.pc = "args"]]
                           /\ elock' = [elock EXCEPT ![e] = p]
    /\ last' = NoLast
    /\ UNCHANGED <<lock, objects, objectSlices, nconts, parent, entities, heap, calls, running, failed, provs, nops>>

\* Entity.Value up to createValue: a prototype goes on unlocked; a singleton
\* takes the entity's lock and returns the cached value if there is one
Value(p) ==
    /\ Busy(p)
    /\ LET f == Top(p)
           e == f.e
       IN  /\ f.op = "Value"
           /\ f.pc = "enter"
           /\ IF heap[e].prototype
              THEN /\ procs' = [procs EXCEPT ![p].stack[Len(procs[p].stack)] = [f EXCEPT !.pc = "args"]]
                   /\ UNCHANGED elock
              ELSE /\ elock[e] = 0
                   /\ IF heap[e].value # NoVal
                      THEN /\ procs' = deliver(p, heap[e].value, e)
                           /\ UNCHANGED elock
                      ELSE /\ procs' = [procs EXCEPT ![p].stack[Len(procs[p].stack)] = [f EXCEPT !.pc = "args"]]
                           /\ elock' = [elock EXCEPT ![e] = p]
    /\ last' = NoLast
    /\ UNCHANGED <<lock, objects, objectSlices, nconts, parent, entities, heap, calls, running, failed, provs, nops>>

\* createValue, its parameters resolved: the factory is invoked, unless a
\* nil argument makes reflect's Call panic, which unwinds the caller's stack
createValue(p) ==
    /\ Busy(p)
    /\ LET f == Top(p)
       IN  /\ f.op = "Value"
           /\ f.pc = "args"
           /\ f.i > Len(f.keys)
           /\ IF hasNilArg(f)
              THEN /\ procs' = [procs EXCEPT ![p] = [stack |-> <<>>,
                          res |-> [NoRes EXCEPT !.st = "panic", !.op = procs[p].stack[1].op,
                                   !.c = procs[p].stack[1].c, !.keys = procs[p].stack[1].keys]]]
                   /\ elock' = [x \in Ents |-> IF Held(p, x) THEN 0 ELSE elock[x]]
                   /\ UNCHANGED <<calls, running>>
              ELSE /\ calls[f.e] < MaxCalls
                   /\ calls' = [calls EXCEPT ![f.e] = @ + 1]
                   /\ running' = [running EXCEPT ![f.e] = @ + 1]
                   /\ procs' = [procs EXCEPT ![p].stack[Len(procs[p].stack)] =
                                  [f EXCEPT !.pc = "run", !.n = calls[f.e] + 1]]
                   /\ UNCHANGED elock
    /\ last' = NoLast
    /\ UNCHANGED <<lock, objects, objectSlices, nconts, parent, entities, heap, failed, provs, nops>>

\* what an invocation of the factory can yield: a func with a single result
\* yields a value; only an interface result can be nil
Outcomes(init) ==
    IF init.nout < 2 THEN {"ok"}
    ELSE IF Kind(init.out) = "Interface" THEN {"ok", "err", "nil"}
    ELSE {"ok", "err"}

\* the factory returns and Value forgets to cache the result
factoryReturn_NoStore(p, outcome) ==
    /\ Busy(p)
    /\ LET f == Top(p)
           e == f.e
           init == heap[e].init
           val == CASE outcome = "nil" -> NoVal
                    [] outcome = "ok" /\ init.ret # "" -> Lit(init.ret)
                    [] OTHER -> Made(e, f.n)
       IN  /\ f.op = "Value"
           /\ f.pc = "run"
           /\ outcome \in Outcomes(init)
           /\ running' = [running EXCEPT ![e] = @ - 1]
           /\ elock' = [elock EXCEPT ![e] = 0]
           /\ IF outcome = "err"
              THEN /\ procs' = failBelow(p, Err("FactoryError", "FactoryError", heap[e].key))
                   /\ failed' = [failed EXCEPT ![e] = @ + 1]
                   /\ UNCHANGED heap
              ELSE /\ procs' = deliver(p, val, e)
                   /\ failed' = [failed EXCEPT ![e] = IF val = NoVal THEN @ + 1 ELSE @]
                   /\ UNCHANGED heap
    /\ last' = NoLast
    /\ UNCHANGED <<lock, objects, objectSlices, nconts, parent, entities, calls, provs, nops>>

\* the factory returns and Value caches the result of a prototype as well
factoryReturn_StoreAlways(p, outcome) ==
    /\ Busy(p)
    /\ LET f == Top(p)
           e == f.e
           init == heap[e].init
           val == CASE outcome = "nil" -> NoVal
                    [] outcome = "ok" /\ init.ret # "" -> Lit(init.ret)
                    [] OTHER -> Made(e, f.n)
       IN  /\ f.op = "Value"
           /\ f.pc = "run"
           /\ outcome \in Outcomes(init)
           /\ running' = [running EXCEPT ![e] = @ - 1]
           /\ elock' = [elock EXCEPT ![e] = 0]
           /\ IF outcome = "err"
              THEN /\ procs' = failBelow(p, Err("FactoryError", "FactoryError", heap[e].key))
                   /\ failed' = [failed EXCEPT ![e] = @ + 1]
                   /\ UNCHANGED heap
              ELSE /\ procs' = deliver(p, val, e)
                   /\ failed' = [failed EXCEPT ![e] = IF val = NoVal THEN @ + 1 ELSE @]
                   /\ heap' = [heap EXCEPT ![e].value = val]
    /\ last' = NoLast
    /\ UNCHANGED <<lock, objects, objectSlices, nconts, parent, entities, calls, provs, nops>>

\* the factory returns; Value caches a singleton's non-nil result and unlocks
factoryReturn(p, outcome) ==
    /\ Busy(p)
    /\ LET f == Top(p)
           e == f.e
           init == heap[e].init
           val == CASE outcome = "nil" -> NoVal
                    [] outcome = "ok" /\ init.ret # "" -> Lit(init.ret)
                    [] OTHER -> Made(e, f.n)
       IN  /\ f.op = "Value"
           /\ f.pc = "run"
           /\ outcome \in Outcomes(init)
           /\ running' = [running EXCEPT ![e] = @ - 1]
           /\ elock' = [elock EXCEPT ![e] = 0]
           /\ IF outcome = "err"
              THEN /\ procs' = failBelow(p, Err("FactoryError", "FactoryError", heap[e].key))
                   /\ failed' = [failed EXCEPT ![e] = @ + 1]
                   /\ UNCHANGED heap
              ELSE /\ procs' = deliver(p, val, e)
                   /\ failed' = [failed EXCEPT ![e] = IF val = NoVal THEN @ + 1 ELSE @]
                   /\ heap' = IF heap[e].prototype THEN heap ELSE [heap EXCEPT ![e].value = val]
    /\ last' = NoLast
    /\ UNCHANGED <<lock, objects, objectSlices, nconts, parent, entities, calls, provs, nops>>

\* createValue could not resolve a parameter: Value returns the error,
\* unlocking its singleton, and the frame below fails
unwind(p) ==
    /\ Busy(p)
    /\ LET f == Top(p)
       IN  /\ f.pc = "fail"
           /\ procs' = failBelow(p, f.err)
           /\ elock' = IF heap[f.e].prototype THEN elock ELSE [elock EXCEPT ![f.e] = 0]
    /\ last' = NoLast
    /\ UNCHANGED <<lock, objects, objectSlices, nconts, parent, entities, heap, calls, running, failed, provs, nops>>

\* CanOverride as an operation
canOverride(c, key) ==
    /\ c <= nconts
    /\ last' = [op |-> "CanOverride", c |-> c, key |-> key, override |-> CanOverride(c, key).flag,
                cond |-> "none", res |-> CanOverride(c, key).res, msg |-> ""]
    /\ HeapUnchanged
    /\ UNCHANGED <<lock, objects, objectSlices, nconts, parent, entities, provs, procs, nops>>

(***************************************************************************)
(* The steps of the callers, common to every specification.                *)
(***************************************************************************)
Step ==
    \/ \E p \in Procs : lookupInstance(p)
    \/ \E p \in Procs : Value(p)
    \/ \E p \in Procs : createValue(p)
    \/ \E p \in Procs, outcome \in {"ok", "err", "nil"} : factoryReturn(p, outcome)
    \/ \E p \in Procs : unwind(p)

(***************************************************************************)
(* Spec: concurrent callers resolving on one container while entities are  *)
(* bound.                                                                  *)
(***************************************************************************)
ConcInits == {Func("U", <<>>), Func("I", <<"U">>)}
ConcKeys == {TypeKey("I"), TypeKey("U")}

Next ==
    \/ \E init \in ConcInits, prototype \in BOOLEAN : Bind(1, init, prototype, FALSE, "none")
    \/ \E p \in Procs, key \in ConcKeys : Get(p, 1, key)
    \/ \E p \in Procs : CallWithProvider(p, 1, <<"I">>, 0)
    \/ \E p \in Procs : AutoWire(p, 1, <<Fd("@", "I", TRUE)>>)
    \/ Step

Spec == Init /\ [][Next]_vars

(***************************************************************************)
(* SpecBind: the binding operations and queries on a chain of containers,  *)
(* over every kind of argument.                                            *)
(***************************************************************************)
QueryKeys == {TypeKey("U"), TypeKey("I"), StrKey("k")}

NextBind ==
    \/ \E c \in 1..nconts, init \in BindInits, prototype \in BOOLEAN, override \in BOOLEAN, cond \in Conds :
          Bind(c, init, prototype, override, cond)
    \/ \E c \in 1..nconts, key \in BindKeys, init \in KeyInits, override \in BOOLEAN, cond \in Conds :
          BindWithKey(c, key, init, FALSE, override, cond)
    \/ \E c \in 1..nconts, key \in ValueKeys, value \in BindValues, override \in BOOLEAN :
          bindValueOverride(c, key, value, override)
    \/ \E c \in 1..nconts, key \in QueryKeys : canOverride(c, key)

SpecBind == Init /\ [][NextBind]_vars

(***************************************************************************)
(* SpecRebind: concurrent callers resolving one identity of one container  *)
(* while it is bound and rebound.                                          *)
(***************************************************************************)
NextRebind ==
    \/ \E override \in BOOLEAN, cond \in {"none", "false"} :
          Bind(1, Func("U", <<>>), FALSE, override, cond)
    \/ \E override \in BOOLEAN : BindWithKey(1, TypeKey("U"), NilInit, FALSE, override, "none")
    \/ \E p \in Procs : Get(p, 1, TypeKey("U"))
    \/ \E p \in Procs : lookupInstance(p)
    \/ \E p \in Procs : Value(p)
    \/ \E p \in Procs : createValue(p)
    \/ \E p \in Procs, outcome \in {"ok", "err"} : factoryReturn(p, outcome)

SpecRebind == Init /\ [][NextRebind]_vars

(***************************************************************************)
(* SpecChain: one caller resolving on a chain of containers, with and      *)
(* without a provider.                                                     *)
(***************************************************************************)
ChainInits == {Func("U", <<>>), Func("I", <<"U">>)}
ChainKeys == {TypeKey("I"), TypeKey("U")}

NextChain ==
    \/ \E c \in 1..nconts, init \in ChainInits : Bind(c, init, FALSE, FALSE, "none")
    \/ \E c \in 1..nconts : Extend(c)
    \/ \E c \in 2..nconts, p \in 0..nconts : ExtendFrom(c, p)
    \/ \E c \in 1..nconts, init \in ProviderInits : Provider(c, <<init>>)
    \/ \E c \in 1..nconts, key \in ChainKeys : Get(1, c, key)
    \/ \E c \in 1..nconts, prov \in 0..Len(provs) : CallWithProvider(1, c, <<"U">>, prov)
    \/ Step

SpecChain == Init /\ [][NextChain]_vars

(***************************************************************************)
(* SpecKeys: one caller asking one container for keys of every form while  *)
(* entities are bound under types, pointer types, marker values and        *)
(* strings.                                                                *)
(***************************************************************************)
LookupInits == {Func("I", <<"U">>), Func("PI", <<>>), Func("U", <<>>), Func("PU", <<>>)}
MarkerKeys == {ValKey("PI"), TypeKey("S")}
NamedKeys == {StrKey("k"), StrKey("I")}
NamedValues == {Lit("v1"), Lit("v2")}
LookupKeys == {TypeKey("I"), ValKey("PI"), TypeKey("PI"), TypeKey("U"), TypeKey("PU"), ValKey("PU"),
               ValKey("U"), TypeKey("V"), StrKey("k"), StrKey("I")}

NextKeys ==
    \/ \E init \in LookupInits : Bind(1, init, FALSE, FALSE, "none")
    \/ \E key \in MarkerKeys : BindWithKey(1, key, Func("I", <<>>), FALSE, FALSE, "none")
    \/ \E key \in NamedKeys, value \in NamedValues, override \in BOOLEAN :
          bindValueOverride(1, key, value, override)
    \/ \E key \in LookupKeys : Get(1, 1, key)
    \/ Step

SpecKeys == Init /\ [][NextKeys]_vars

(***************************************************************************)
(* SpecCall: one caller calling callables of several parameters, and       *)
(* getting entities, on one container while factories are bound.           *)
(***************************************************************************)
CallInits == {Func("U", <<>>), Func("I", <<"U">>)}
CallParams == {<<"U", "I">>, <<"V", "U">>, <<"I", "V">>, <<"U", "V", "I">>}
CallKeys == {TypeKey("I"), TypeKey("U")}

NextCall ==
    \/ \E init \in CallInits, prototype \in BOOLEAN : Bind(1, init, prototype, FALSE, "none")
    \/ \E params \in CallParams : CallWithProvider(1, 1, params, 0)
    \/ \E key \in CallKeys : Get(1, 1, key)
    \/ Step

SpecCall == Init /\ [][NextCall]_vars

(***************************************************************************)
(* Consistency of the model's bookkeeping.                                 *)
(***************************************************************************)
\* a lock is held exactly by the caller whose frame is inside Value
LockConsistent == \A e \in Ents, p \in Procs : elock[e] = p <=> Held(p, e)

\* a table entry is an entity of that container stored under its own key
TableConsistent ==
    \A c \in Containers, k \in AllKeys :
        entities[c][k] # 0 => heap[entities[c][k]].c = c /\ heap[entities[c][k]].key = k

(***************************************************************************)
(* The values callers hold: a slot is an argument a frame has taken or a   *)
(* value in a caller's result.                                             *)
(***************************************************************************)
ArgsOf(pr) ==
    UNION {{pr.stack[i].args[j] : j \in 1..Len(pr.stack[i].args)} : i \in 1..Len(pr.stack)}
      \cup {pr.res.args[j] : j \in 1..Len(pr.res.args)}

\* slot <<p, 0, j>> is the j-th value of p's result, <<p, i, j>> the j-th
\* argument of p's i-th frame
Slots ==
    {<<p, 0, j>> : p \in Procs, j \in 1..MaxCalls + MaxOps} \cup
    {<<p, i, j>> : p \in Procs, i \in 1..MaxCalls + MaxOps, j \in 1..MaxCalls + MaxOps}

SlotArgs(s) == IF s[2] = 0 THEN procs[s[1]].res.args
               ELSE IF s[2] <= Len(procs[s[1]].stack) THEN procs[s[1]].stack[s[2]].args ELSE <<>>

Filled == {s \in Slots : s[3] <= Len(SlotArgs(s))}
SlotOf(s) == SlotArgs(s)[s[3]]

(***************************************************************************)
(* Claims on the lifecycle of entities (checked under Spec).               *)
(***************************************************************************)
\* C1, as stated: the factory of a singleton entity is invoked at most once
\* however many callers resolve it, and all of them hold the same value.
C1_FactoryOnce ==
    \A e \in Ents : ~heap[e].prototype =>
        /\ calls[e] <= 1
        /\ \A s, t \in Filled : SlotOf(s).e = e /\ SlotOf(t).e = e => SlotOf(s).v = SlotOf(t).v

\* C1, amended: the factory of a singleton entity is invoked again only
\* after an invocation that failed or returned nil; at most one invocation
\* succeeds with a non-nil value, none follows it, and every caller that got
\* a non-nil value from the entity holds that one value.
C1_OneSuccessfulInvocation ==
    \A e \in Ents : ~heap[e].prototype /\ heap[e].init.kind = "func" =>
        /\ calls[e] <= failed[e] + 1
        /\ heap[e].value # NoVal => calls[e] = failed[e] + 1 /\ running[e] = 0
        /\ \A s \in Filled : SlotOf(s).e = e => SlotOf(s).v \in {NoVal, heap[e].value}

\* two callers race for the first resolution of one singleton: one runs the
\* factory, invoked once so far, the other waits at the entity's lock
C1_Witness ==
    \E e \in Ents, p, q \in Procs :
        /\ p # q /\ Busy(p) /\ Busy(q)
        /\ ~heap[e].prototype /\ calls[e] = 1 /\ failed[e] = 0
        /\ Top(p).op = "Value" /\ Top(p).e = e /\ Top(p).pc = "run"
        /\ Top(q).op = "Value" /\ Top(q).e = e /\ Top(q).pc = "enter"

\* C2: at no moment are two invocations of the factory of one singleton
\* entity in progress.
C2_NoConcurrentFactory == \A e \in Ents : ~heap[e].prototype => running[e] <= 1

\* the factory of a singleton runs for a Call while an AutoWire that needs
\* the same entity waits at its lock
C2_Witness ==
    \E e \in Ents, p, q \in Procs :
        /\ p # q /\ Busy(p) /\ Busy(q)
        /\ ~heap[e].prototype /\ running[e] = 1
        /\ procs[p].stack[1].op = "Call" /\ Top(p).op = "Value" /\ Top(p).e = e /\ Top(p).pc = "run"
        /\ procs[q].stack[1].op = "AutoWire" /\ Top(q).op = "Value" /\ Top(q).e = e /\ Top(q).pc = "enter"

\* C3: once a singleton entity holds a value, the value never changes, the
\* factory is never invoked again, and every value a caller takes from the
\* entity from then on is that cached value.
C3_SingletonCached ==
    [][\A e \in Ents : (~heap[e].prototype /\ heap[e].value # NoVal) =>
          /\ heap'[e].value = heap[e].value
          /\ calls'[e] = calls[e]
          /\ \A p \in Procs : \A a \in ArgsOf(procs'[p]) \ ArgsOf(procs[p]) :
                a.e = e => a.v = heap[e].value]_vars

\* both callers hold the value of a singleton whose factory ran once
C3_Witness ==
    \E e \in Ents, p, q \in Procs :
        /\ p # q /\ ~heap[e].prototype /\ heap[e].init.kind = "func"
        /\ heap[e].value # NoVal /\ calls[e] = 1
        /\ procs[p].res.st = "ok" /\ procs[p].res.args = <<[v |-> heap[e].value, e |-> e]>>
        /\ procs[q].res.st = "ok" /\ procs[q].res.args = <<[v |-> heap[e].value, e |-> e]>>

\* C4: a prototype entity never holds a cached value, every value taken
\* from it comes from an invocation of its own, and two values taken from it
\* are two separately produced instances.
C4_PrototypeNeverCached ==
    \A e \in Ents : heap[e].prototype =>
        /\ heap[e].value = NoVal
        /\ Cardinality({s \in Filled : SlotOf(s).e = e}) <= calls[e]
        /\ \A s, t \in Filled :
              (s # t /\ SlotOf(s).e = e /\ SlotOf(t).e = e /\ SlotOf(s).v # NoVal) => SlotOf(s).v # SlotOf(t).v

\* two callers hold two different instances made by one prototype entity
C4_Witness ==
    \E e \in Ents, p, q \in Procs :
        /\ p # q /\ heap[e].prototype /\ calls[e] = 2
        /\ procs[p].res.st = "ok" /\ procs[q].res.st = "ok"
        /\ procs[p].res.args[1].e = e /\ procs[q].res.args[1].e = e
        /\ procs[p].res.args[1].v # procs[q].res.args[1].v

(***************************************************************************)
(* Claims on the override policy (checked under SpecBind).                 *)
(***************************************************************************)
BindOps == {"Bind", "BindWithKey", "BindValue"}

\* the step is a bind of key k on container c
BindOf(c, k) == last'.op \in BindOps /\ last'.c = c /\ last'.key = k

\* the step is a bind of key k on c whose arguments pass the checks and whose
\* predicate, if it has one, holds
EffectiveBindOf(c, k) ==
    BindOf(c, k) /\ last'.res \notin {"InvalidArgs", "panic"} /\ matched(last'.cond) = "matched"

Bound(c, k) == entities[c][k] # 0
Overridable(c, k) == heap[entities[c][k]].overridable

C7_FlagFixedByFirstBind ==
    [][\A c \in Containers, k \in AllKeys :
          Bound(c, k) => /\ entities'[c][k] # 0
                         /\ CanOverride(c, k)'.flag = CanOverride(c, k).flag]_vars

\* C7, amended: overridability can be lost but not gained.  An identity
\* bound non-overridable keeps its entity and stays non-overridable; an
\* identity bound overridable stays bound, and CanOverride stays true until a
\* permitted rebind that does not request override is applied.
C7_OverridableOnlyLost ==
    [][\A c \in Containers, k \in AllKeys :
          Bound(c, k) =>
              /\ entities'[c][k] # 0
              /\ CanOverride(c, k).res = "ok"
              /\ ~CanOverride(c, k).flag =>
                    /\ ~CanOverride(c, k)'.flag
                    /\ entities'[c][k] = entities[c][k]
              /\ (CanOverride(c, k).flag /\ ~CanOverride(c, k)'.flag) =>
                    /\ BindOf(c, k)
                    /\ last'.res = "bound"
                    /\ ~last'.override]_vars

\* an identity now bound non-overridable was bound overridable before
C7_Witness ==
    \E c \in Containers, k \in AllKeys, old \in Ents :
        /\ Bound(c, k) /\ ~Overridable(c, k) /\ ~CanOverride(c, k).flag
        /\ old < entities[c][k]
        /\ heap[old].c = c /\ heap[old].key = k /\ heap[old].overridable

\* C8, as stated: a rebind of an overridable identity succeeds and the new
\* entity has the new call's override flag; every rebind of an identity whose
\* entity is non-overridable fails with RepeatedBind.
C8_RebindAdoptsFlag ==
    [][\A c \in Containers, k \in AllKeys :
          (Bound(c, k) /\ BindOf(c, k)) =>
              IF Overridable(c, k)
              THEN last'.res = "bound" /\ heap'[entities'[c][k]].overridable = last'.override
              ELSE last'.res = "RepeatedBind"]_vars

\* C8, amended: the same, for the rebinds whose arguments pass the checks
\* and whose predicate, if any, holds.
C8_EffectiveRebindAdoptsFlag ==
    [][\A c \in Containers, k \in AllKeys :
          (Bound(c, k) /\ EffectiveBindOf(c, k)) =>
              IF Overridable(c, k)
              THEN /\ last'.res = "bound"
                   /\ entities'[c][k] = Len(heap) + 1
                   /\ heap'[entities'[c][k]].overridable = last'.override
              ELSE last'.res = "RepeatedBind"]_vars

\* after an override bind and a plain bind of one identity, a further bind
\* of it has failed with RepeatedBind
C8_Witness ==
    \E old \in Ents :
        /\ last.op \in BindOps /\ last.res = "RepeatedBind"
        /\ entities[last.c][last.key] # 0
        /\ old < entities[last.c][last.key]
        /\ heap[old].c = last.c /\ heap[old].key = last.key /\ heap[old].overridable
        /\ ~heap[entities[last.c][last.key]].overridable

(***************************************************************************)
(* Claims on rebinding and resolution (checked under SpecRebind).          *)
(***************************************************************************)
\* every value a finished operation obtained for a key that was bound in its
\* container when the operation started comes from the entity bound then or
\* from one bound later, and was made by that entity's own factory
LatestOnly ==
    \A p \in Procs : procs[p].res.st = "ok" =>
        \A j \in 1..Len(procs[p].res.args) :
            LET r == procs[p].res
                e == r.args[j].e
            IN  r.from[j] # 0 =>
                    /\ e >= r.from[j]
                    /\ heap[e].c = r.c /\ heap[e].key = r.keys[j]
                    /\ r.args[j].v = NoVal \/ r.args[j].v.e = e
                    /\ \A old \in Ents : (old < r.from[j] /\ heap[old].value # NoVal)
                                            => r.args[j].v # heap[old].value

\* C6, as stated: a rebind of an identity whose entity is overridable succeeds
\* and replaces the entity, and resolutions started afterwards get values of
\* the latest binding only.
C6_RebindReplaces ==
    [][/\ \A c \in Containers, k \in AllKeys :
             (Bound(c, k) /\ Overridable(c, k) /\ BindOf(c, k)) =>
                 (last'.res = "bound" /\ entities'[c][k] \notin {0, entities[c][k]})
       /\ LatestOnly']_vars

\* C6, amended: a rebind of an identity whose entity is overridable, with
\* valid arguments and a predicate that holds if it has one, succeeds with or
\* without requesting override and replaces the entity by a new one without a
\* cached value; a rebind whose predicate is false returns no error and
\* replaces nothing; resolutions started after a replacement get values of
\* the binding then in place or of a later one, never the replaced entity's
\* cached value.
C6_EffectiveRebindReplaces ==
    [][/\ \A c \in Containers, k \in AllKeys :
             (Bound(c, k) /\ Overridable(c, k)) =>
                 /\ EffectiveBindOf(c, k) =>
                       /\ last'.res = "bound"
                       /\ entities'[c][k] = Len(heap) + 1
                       /\ heap'[entities'[c][k]].value = NoVal
                 /\ (BindOf(c, k) /\ matched(last'.cond) = "unmatched" /\ last'.res # "InvalidArgs") =>
                       /\ last'.res = "skipped"
                       /\ entities' = entities
       /\ LatestOnly']_vars

\* a caller that started after a rebind holds a value of the new entity,
\* while the replaced entity had a cached value
C6_Witness ==
    \E p \in Procs, old \in Ents :
        LET r == procs[p].res
        IN  /\ r.st = "ok" /\ r.op = "Get"
            /\ r.from[1] = entities[r.c][r.keys[1]]
            /\ r.args[1].e = r.from[1]
            /\ old < r.from[1]
            /\ heap[old].c = r.c /\ heap[old].key = r.keys[1]
            /\ heap[old].value # NoVal
            /\ r.args[1].v # NoVal

(***************************************************************************)
(* Claims on the parent chain and the scope (checked under SpecChain).     *)
(***************************************************************************)
Root == 1

Range(q) == {q[j] : j \in 1..Len(q)}

\* the entities of provider prov stored under one of the candidates
ScopeHits(prov, cands) ==
    IF prov = 0 THEN {} ELSE {e \in Range(provs[prov]) : heap[e].key \in Range(cands)}

\* the entities of container c stored under one of the candidates
TableHits(c, cands) == {entities[c][k] : k \in Range(cands)} \ {0}

\* one level of a lookup: a scope entity wins over the table of the level,
\* the table of the level wins over the parent, and only a level without a
\* match passes the key on to its parent, without the scope, or fails
LevelOrder(p) ==
    LET f == Top(p)
        g == procs'[p].stack[Len(procs'[p].stack)]
        cands == resolveLookupKeys(f.keys[f.i]).keys
        sh == ScopeHits(f.cprov, cands)
        th == TableHits(f.cur, cands)
    IN  /\ Len(procs'[p].stack) = Len(procs[p].stack) + 1 =>
              /\ g.op = "Value"
              /\ IF sh # {} THEN g.e \in sh ELSE g.e \in th
              /\ g.prov = f.cprov
        /\ (Len(procs'[p].stack) = Len(procs[p].stack) /\ g.pc = "args" /\ f.pc = "args"
              /\ <<g.cur, g.cprov>> # <<f.cur, f.cprov>>) =>
              /\ sh = {} /\ th = {}
              /\ parent[f.cur] # 0
              /\ g.cur = parent[f.cur] /\ g.cprov = 0

\* what a finished operation holds for its keys: a scope entity if the scope
\* has one for the key, else the container's own entity if the container had
\* one when the operation started
FirstLevelWins ==
    \A p \in Procs : procs[p].res.st = "ok" =>
        \A j \in 1..Len(procs[p].res.args) :
            LET r == procs[p].res
                e == r.args[j].e
                sh == ScopeHits(r.prov, resolveLookupKeys(r.keys[j]).keys)
            IN  /\ sh # {} => e \in sh
                /\ (sh = {} /\ r.from[j] # 0) => (heap[e].c = r.c /\ heap[e].key = r.keys[j])

\* C9: resolution consults the scope, then the container's table, then the
\* parent chain, and the first level with a match wins.
C9_ScopeTableParent ==
    [][/\ \A p \in Procs : (Busy(p) /\ procs'[p].stack # <<>> /\ Top(p).pc = "args"
                             /\ Top(p).i <= Len(Top(p).keys)) => LevelOrder(p)
       /\ FirstLevelWins']_vars

\* an identity bound on the parent and on the child, asked of the child, has
\* resolved to the child's entity
C9_Witness ==
    \E p \in Procs :
        LET r == procs[p].res
        IN  /\ r.st = "ok" /\ r.op = "Get" /\ r.c # Root /\ parent[r.c] = Root
            /\ entities[Root][r.keys[1]] # 0
            /\ heap[r.args[1].e].c = r.c
            /\ r.args[1].v # NoVal

\* every value a frame or a result holds for an operation or a factory of the
\* root container comes from the scope or from an entity of the root itself
RootOnly ==
    \A p \in Procs :
        /\ \A i \in 1..Len(procs[p].stack) :
              LET f == procs[p].stack[i]
              IN  f.c = Root => \A j \in 1..Len(f.args) :
                      \/ f.prov # 0 /\ f.args[j].e \in Range(provs[f.prov])
                      \/ heap[f.args[j].e].c = Root
        /\ LET r == procs[p].res
           IN  r.c = Root =>
                 /\ \A j \in 1..Len(r.args) :
                       \/ r.prov # 0 /\ r.args[j].e \in Range(provs[r.prov])
                       \/ heap[r.args[j].e].c = Root
                 /\ (r.op = "Get" /\ TableHits(Root, resolveLookupKeys(r.keys[1]).keys) = {}) =>
                       (r.st = "err" /\ r.err.kind = "ObjectNotFound")

\* C10: a bind on a container changes the table of that container only, and
\* the root, which has no parent, resolves from its own table whatever its
\* children bind: an identity bound only on a child is not found, a shadowed
\* identity resolves to the root's own entity.
C10_ChildInvisibleToParent ==
    [][/\ \A c \in Containers :
             entities'[c] # entities[c] =>
                 \/ nconts' = nconts + 1 /\ c = nconts'
                 \/ last'.op \in BindOps /\ last'.c = c /\ last'.res = "bound"
       /\ parent'[Root] = 0
       /\ RootOnly']_vars

\* an identity bound on a child of the root has not been found by the root
C10_Witness ==
    \E p \in Procs, c \in Containers :
        LET r == procs[p].res
        IN  /\ r.st = "err" /\ r.op = "Get" /\ r.c = Root /\ r.err.kind = "ObjectNotFound"
            /\ c # Root /\ parent[c] = Root
            /\ entities[c][r.keys[1]] # 0
            /\ entities[Root][r.keys[1]] = 0

(***************************************************************************)
(* Claims on the scope of a call (checked under SpecChain).                *)
(***************************************************************************)
\* the entities held by providers
ScopeEntities == UNION {Range(provs[q]) : q \in 1..Len(provs)}

\* every value a finished Call holds comes from an entity of the scope it
\* passed if that scope has one for the parameter, and otherwise from an
\* entity bound in a table
ScopeShadows ==
    \A p \in Procs :
        LET r == procs[p].res
        IN  (r.st = "ok" /\ r.op = "Call") =>
                \A j \in 1..Len(r.args) :
                    LET sh == ScopeHits(r.prov, resolveLookupKeys(r.keys[j]).keys)
                        e == r.args[j].e
                    IN  IF sh # {} THEN e \in sh
                        ELSE /\ e \notin ScopeEntities
                             /\ entities[heap[e].c][heap[e].key] = e

\* C11: a call that passes a scope gets the scope's entity for a type rather
\* than the container's, a call that passes none gets the container's, and
\* neither making a scope nor resolving with one changes a binding table.
C11_ScopeShadowsBinding ==
    [][/\ (provs' # provs \/ procs' # procs) => entities' = entities
       /\ ScopeShadows']_vars

\* after a call with a scope took the scope's entity for a type bound in the
\* container as well, a call without scope has got the container's entity
C11_Witness ==
    \E p \in Procs, pe \in ScopeEntities :
        LET r == procs[p].res
        IN  /\ r.st = "ok" /\ r.op = "Call" /\ r.prov = 0
            /\ heap[pe].key = r.keys[1] /\ heap[pe].value # NoVal
            /\ entities[r.c][r.keys[1]] = r.args[1].e
            /\ r.args[1].v # heap[pe].value

(***************************************************************************)
(* Claims on the resolution of keys (checked under SpecKeys).              *)
(***************************************************************************)
\* the entity lookupEntity finds in the table of c for a lookup key
Found(c, key) == lookupEntity(c, resolveLookupKeys(key).keys, 0)

\* p has finished a Get of key that returned a value
Got(p, key) == procs[p].res.st = "ok" /\ procs[p].res.op = "Get" /\ procs[p].res.keys = <<key>>

\* C12, as stated: whenever an entity is bound under the interface type I, a
\* lookup by I's type and a lookup by a nil pointer-to-I marker find that
\* entity.
C12_MarkerFindsInterface ==
    \A c \in 1..nconts : entities[c][TypeKey("I")] # 0 =>
        /\ Found(c, TypeKey("I")) = entities[c][TypeKey("I")]
        /\ Found(c, ValKey("PI")) = entities[c][TypeKey("I")]
        /\ \A p \in Procs : (Got(p, ValKey("PI")) /\ procs[p].res.c = c) =>
              procs[p].res.args[1].e = entities[c][TypeKey("I")]

\* C12, amended: a lookup by I's type finds the entity bound under I; a
\* lookup by a nil pointer-to-I marker finds it too unless an entity is bound
\* under the marker value itself or under the type pointer-to-I, which are
\* tried first.
C12_MarkerFindsInterfaceLast ==
    \A c \in 1..nconts : entities[c][TypeKey("I")] # 0 =>
        /\ Found(c, TypeKey("I")) = entities[c][TypeKey("I")]
        /\ \A p \in Procs : (Got(p, TypeKey("I")) /\ procs[p].res.c = c) =>
              procs[p].res.args[1].e = entities[c][TypeKey("I")]
        /\ Found(c, ValKey("PI")) =
              (CASE entities[c][ValKey("PI")] # 0 -> entities[c][ValKey("PI")]
                 [] entities[c][ValKey("PI")] = 0 /\ entities[c][TypeKey("PI")] # 0 -> entities[c][TypeKey("PI")]
                 [] OTHER -> entities[c][TypeKey("I")])
        /\ (entities[c][ValKey("PI")] = 0 /\ entities[c][TypeKey("PI")] = 0) =>
              \A p \in Procs : (Got(p, ValKey("PI")) /\ procs[p].res.c = c) =>
                  procs[p].res.args[1].e = entities[c][TypeKey("I")]

\* a Get by the nil pointer-to-I marker has returned the value of the entity
\* bound under I
C12_Witness ==
    \E p \in Procs :
        /\ Got(p, ValKey("PI"))
        /\ entities[procs[p].res.c][TypeKey("I")] # 0
        /\ procs[p].res.args[1].e = entities[procs[p].res.c][TypeKey("I")]
        /\ procs[p].res.args[1].v # NoVal

\* the candidates computed for a lookup key
Candidates(key) == Range(resolveLookupKeys(key).keys)

\* every value a frame or a result holds for a key comes from an entity
\* stored under one of the candidates computed for that key
ByCandidateOnly ==
    \A p \in Procs :
        /\ \A i \in 1..Len(procs[p].stack) : \A j \in 1..Len(procs[p].stack[i].args) :
              heap[procs[p].stack[i].args[j].e].key \in Candidates(procs[p].stack[i].keys[j])
        /\ \A j \in 1..Len(procs[p].res.args) :
              heap[procs[p].res.args[j].e].key \in Candidates(procs[p].res.keys[j])

\* C13: lookup matches by equality with a candidate only.  The struct type U
\* is no candidate for pointer-to-U (type or value) but its suggested
\* alternate, pointer-to-U is no candidate for U, and a type V under which
\* nothing is bound is never resolved.
C13_MatchByEquality ==
    /\ ByCandidateOnly
    /\ TypeKey("U") \notin Candidates(TypeKey("PU")) \cup Candidates(ValKey("PU"))
    /\ resolveLookupKeys(TypeKey("PU")).possible = TypeKey("U")
    /\ Candidates(TypeKey("U")) = {TypeKey("U")}
    /\ \A p \in Procs :
          LET r == procs[p].res
          IN  /\ Got(p, TypeKey("U")) => heap[r.args[1].e].key = TypeKey("U")
              /\ (Got(p, TypeKey("PU")) \/ Got(p, ValKey("PU"))) => heap[r.args[1].e].key = TypeKey("PU")
              /\ (r.op = "Get" /\ r.st # "idle" /\ r.keys \in {<<TypeKey("PU")>>, <<ValKey("PU")>>}
                    /\ entities[r.c][TypeKey("PU")] = 0) =>
                    /\ r.st = "err" /\ r.err.kind = "ObjectNotFound"
                    /\ r.err.possible = TypeKey("U")
              /\ (r.op = "Get" /\ r.st # "idle" /\ r.keys = <<TypeKey("U")>> /\ entities[r.c][TypeKey("U")] = 0) =>
                    /\ r.st = "err" /\ r.err.kind = "ObjectNotFound"
                    /\ r.err.possible = NoKey
              /\ (r.op = "Get" /\ r.st # "idle" /\ r.keys = <<TypeKey("V")>>) =>
                    r.st = "err" /\ r.err.kind = "ObjectNotFound"

\* with U bound, a Get by the type pointer-to-U has failed with
\* ObjectNotFound, suggesting U
C13_Witness ==
    \E p \in Procs :
        LET r == procs[p].res
        IN  /\ r.op = "Get" /\ r.keys = <<TypeKey("PU")>> /\ r.st = "err"
            /\ r.err.kind = "ObjectNotFound" /\ r.err.possible = TypeKey("U")
            /\ entities[r.c][TypeKey("U")] # 0

(***************************************************************************)
(* Claims on the outward walk (checked under SpecChain).                   *)
(***************************************************************************)
\* C14: with the parent links set by Extend and ExtendFrom, the outward walk
\* of a lookup asks each container at most once and then ends: no lookup runs
\* out of stack, and a Get of an identity bound at no level of the chain has
\* failed with ObjectNotFound.
C14_WalkExhaustsChain ==
    \A p \in Procs :
        /\ procs[p].res.st # "overflow"
        /\ \A i \in 1..Len(procs[p].stack) : procs[p].stack[i].hops < nconts
        /\ (procs[p].res.op = "Get" /\ procs[p].res.st # "idle"
              /\ \A c \in 1..nconts : entities[c][procs[p].res.keys[1]] = 0) =>
              (procs[p].res.st = "err" /\ procs[p].res.err.kind = "ObjectNotFound")

(***************************************************************************)
(* Claims on calls and on failing factories (checked under SpecCall).      *)
(***************************************************************************)
\* a running Call holds the values of its first i-1 parameters, each from an
\* entity found for that parameter; a Call that invoked its callable had all
\* of them; a failed Call stopped at the first parameter it could not get
CallInOrder ==
    \A p \in Procs :
        /\ (Busy(p) /\ procs[p].stack[1].op = "Call") =>
              LET f == procs[p].stack[1]
              IN  /\ Len(f.args) = f.i - 1
                  /\ \A j \in 1..Len(f.args) : heap[f.args[j].e].key \in Candidates(f.keys[j])
        /\ procs[p].res.op = "Call" =>
              LET r == procs[p].res
              IN  /\ \A j \in 1..Len(r.args) : heap[r.args[j].e].key \in Candidates(r.keys[j])
                  /\ r.st = "ok" => Len(r.args) = Len(r.keys) /\ ~hasNilArg(r)
                  /\ r.st = "err" => Len(r.args) < Len(r.keys)
                  /\ r.st = "panic" => Len(r.args) = Len(r.keys) /\ hasNilArg(r)
                  /\ r.st \in {"ok", "err", "panic"}

\* a step of a Call takes the value of at most its next parameter, and the
\* step at which a parameter fails ends the Call
CallStep ==
    \A p \in Procs :
        (Busy(p) /\ procs[p].stack[1].op = "Call") =>
            LET f == procs[p].stack[1]
            IN  IF procs'[p].stack # <<>>
                THEN LET g == procs'[p].stack[1]
                     IN  /\ g.pc = "args"
                         /\ g.args = f.args \/ (Len(g.args) = Len(f.args) + 1 /\ SubSeq(g.args, 1, Len(f.args)) = f.args)
                ELSE LET r == procs'[p].res
                     IN  \/ r.st = "err" /\ r.args = f.args
                         \/ r.st \in {"ok", "panic"} /\ SubSeq(r.args, 1, Len(f.args)) = f.args

Caller(p) == procs[p].stack[Len(procs[p].stack) - 1]

\* the error p's step has handed to the frame below its top frame, or to the
\* result of its operation
Handed(p) ==
    IF procs'[p].stack = <<>> THEN procs'[p].res.err
    ELSE procs'[p].stack[Len(procs'[p].stack)].err

\* the step is a return of p's top frame with an error
ReturnsError(p) ==
    /\ Busy(p) /\ Top(p).op = "Value"
    /\ \/ procs'[p].stack = <<>> /\ procs'[p].res.st = "err"
       \/ /\ Len(procs'[p].stack) = Len(procs[p].stack) - 1
          /\ procs'[p].stack[Len(procs'[p].stack)].pc = "fail"

\* the factory of p's top frame returns a failure: nothing is cached and the
\* caller gets the failure with the entity's key
FactoryFails(p, wrapped) ==
    (ReturnsError(p) /\ Top(p).pc = "run") =>
        /\ heap' = heap
        /\ heap[Top(p).e].value = NoVal
        /\ Handed(p).cause = "FactoryError"
        /\ Handed(p).key = heap[Top(p).e].key
        /\ IF Caller(p).op = "Get"
           THEN Handed(p).kind = "FactoryError" /\ Handed(p).is = {"FactoryError"}
           ELSE /\ Handed(p).kind = "ArgsNotInstanced"
                /\ Handed(p).is = IF wrapped THEN {"ArgsNotInstanced", "FactoryError"} ELSE {"ArgsNotInstanced"}

\* a factory whose parameter failed returns that error: the caller gets the
\* same cause and key
FailurePasses(p, wrapped) ==
    (ReturnsError(p) /\ Top(p).pc = "fail" /\ Top(p).err.cause = "FactoryError") =>
        /\ heap' = heap
        /\ Handed(p).cause = "FactoryError"
        /\ Handed(p).key = Top(p).err.key
        /\ Handed(p).kind = "ArgsNotInstanced"
        /\ Handed(p).is = IF wrapped THEN {"ArgsNotInstanced", "FactoryError"} ELSE {"ArgsNotInstanced"}

\* C16, as stated: a failure returned by a factory caches nothing and reaches
\* the operation as the cause of its error, with the entity's key, for a Get
\* of the entity, for a Call with it as parameter and for a factory with it
\* as parameter.
C16_FailureIsCause ==
    [][\A p \in Procs : FactoryFails(p, TRUE) /\ FailurePasses(p, TRUE)]_vars

\* C16, amended: a Get of the entity returns the failure wrapped with the
\* entity's key; a Call or a factory with the entity as parameter fails with
\* an ArgsNotInstanced error whose message holds the text of the failure and
\* the key, the failure itself not being in its chain.
C16_FailureIsNamed ==
    [][\A p \in Procs : FactoryFails(p, FALSE) /\ FailurePasses(p, FALSE)]_vars

\* a Call has failed on the failure of its parameter's factory, which left
\* the entity without value
C16_Witness ==
    \E p \in Procs, e \in Ents :
        LET r == procs[p].res
        IN  /\ r.op = "Call" /\ r.st = "err"
            /\ r.err.cause = "FactoryError" /\ r.err.kind = "ArgsNotInstanced"
            /\ r.err.key = heap[e].key /\ heap[e].key = r.keys[Len(r.args) + 1]
            /\ failed[e] > 0 /\ heap[e].value = NoVal

(***************************************************************************)
(* Claims on conditional binds (checked under SpecBind).                   *)
(***************************************************************************)
\* the step is a bind with predicate cond whose arguments pass the checks
\* of Bind or BindWithKey
Accepted(cond) ==
    /\ last'.op \in {"Bind", "BindWithKey"}
    /\ last'.cond = cond
    /\ last'.res # "InvalidArgs"

\* the step is a bind that reaches bindWithOverride, where the predicate
\* cond is evaluated
Evaluates(cond) == Accepted(cond) /\ last'.res # "panic"

\* C17: a conditional bind whose predicate evaluates to false returns no
\* error, creates no entity and leaves every table as it was, whether or not
\* an entity is bound for the identity and whatever that entity's flag.
C17_FalsePredicateNoOp ==
    [][Evaluates("false") =>
          /\ last'.res = "skipped"
          /\ entities' = entities
          /\ heap' = heap]_vars

\* a conditional override bind with a false predicate has left the
\* overridable entity bound for its identity in place
C17_Witness ==
    /\ last.op \in {"Bind", "BindWithKey"} /\ last.cond = "false" /\ last.res = "skipped"
    /\ last.override
    /\ entities[last.c][last.key] # 0
    /\ heap[entities[last.c][last.key]].overridable

\* what an unconditional bind of key on c does in the current state
Unconditional(c, key) == bindOutcome(c, key, "none")

\* C18: the predicate of a conditional bind is evaluated at bind time.  For
\* a predicate returning (bool, error), an error makes the bind fail with it
\* and create no entity, and true with a nil error binds as an unconditional
\* bind would; a predicate returning true binds as an unconditional bind
\* would.
C18_PredicateDecidesAtBind ==
    [][/\ Accepted("pairFail") =>
             (last'.res = "PredicateError" /\ entities' = entities /\ heap' = heap)
       /\ \A cond \in {"true", "pairTrue"} : (Accepted(cond) /\ last'.key # NoKey) =>
             /\ last'.res = Unconditional(last'.c, last'.key)
             /\ last'.res = "bound" =>
                   /\ entities'[last'.c][last'.key] = Len(heap) + 1
                   /\ heap'[Len(heap) + 1].overridable = last'.override]_vars

(***************************************************************************)
(* Claim on the round trip of a bound value (checked under SpecKeys).      *)
(***************************************************************************)
\* e is an entity made by BindValue: it holds the value it was bound with
\* and cannot be replaced
IsBoundValue(e) ==
    /\ e # 0
    /\ heap[e].init = NilInit
    /\ ~heap[e].overridable

\* the step is a successful BindValue
BindValueStep ==
    /\ last'.op = "BindValue"
    /\ last'.res = "bound"
    /\ ~last'.override

\* C19: a successful BindValue(k, v) stores v under k alone, and every Get(k)
\* called on that container afterwards returns exactly v, also when an
\* entity is bound under the type identity of the same name.
C19_BindValueRoundTrip ==
    /\ [][BindValueStep =>
             LET e == entities'[last'.c][last'.key]
             IN  /\ e = Len(heap) + 1
                 /\ heap'[e].value \in NamedValues
                 /\ heap'[e].init = NilInit
                 /\ ~heap'[e].overridable
                 /\ \A k \in AllKeys \ {last'.key} :
                       entities'[last'.c][k] = entities[last'.c][k]]_vars
    /\ [][\A c \in 1..nconts, k \in NamedKeys :
             IsBoundValue(entities[c][k]) =>
                 /\ entities'[c][k] = entities[c][k]
                 /\ heap'[entities[c][k]] = heap[entities[c][k]]]_vars
    /\ [](\A p \in Procs :
             LET r == procs[p].res
             IN  (r.op = "Get" /\ r.st # "idle" /\ r.keys[1] \in NamedKeys /\ IsBoundValue(r.from[1])) =>
                     /\ r.st = "ok"
                     /\ r.args = <<[v |-> heap[r.from[1]].value, e |-> r.from[1]]>>)

\* with an entity bound under the type I, a Get of the name "I" called after
\* BindValue("I", v) has returned v
C19_Witness ==
    \E p \in Procs :
        /\ Got(p, StrKey("I"))
        /\ IsBoundValue(procs[p].res.from[1])
        /\ entities[procs[p].res.c][TypeKey("I")] # 0
        /\ procs[p].res.args[1].v \in NamedValues

(***************************************************************************)
(* AutoWire on structs with tagged, "-"-tagged and untagged fields, while  *)
(* factories and values are bound.                                         *)
(***************************************************************************)
WireInits == {Func("U", <<>>), Func("I", <<"U">>)}
WireKeys == {StrKey("k"), StrKey("-")}
WireStructs == {<<Fd("@", "U", TRUE), Fd("k", "S", FALSE), Fd("", "S", TRUE)>>,
                <<Fd("-", "S", TRUE), Fd("@", "U", FALSE)>>,
                <<Fd("@", "I", TRUE)>>,
                <<Fd("k", "U", TRUE)>>}

NextWire ==
    \/ \E init \in WireInits, prototype \in BOOLEAN : Bind(1, init, prototype, FALSE, "none")
    \/ \E key \in WireKeys, value \in NamedValues : bindValueOverride(1, key, value, FALSE)
    \/ \E p \in Procs, fields \in WireStructs : AutoWire(p, 1, fields)
    \/ Step

SpecWire == Init /\ [][NextWire]_vars

\* field i of the struct of result r holds a value of the entity bound
\* under key
SetFrom(r, i, key) ==
    LET e == entities[r.c][key]
    IN  /\ e # 0
        /\ r.target[i] # NoVal
        /\ r.target[i] = heap[e].value \/ r.target[i].e = e

\* p has finished an AutoWire that returned no error
Wired(p) == procs[p].res.op = "AutoWire" /\ procs[p].res.st = "ok"

WireFailed(p) == procs[p].res.op = "AutoWire" /\ procs[p].res.st = "err"

\* the result r of an AutoWire that failed at field k: k is a field AutoWire
\* resolves, the message names the key of k, every resolved field before k
\* holds its value and no field from k on is written
AbortsAt(r, k) ==
    /\ k \in 1..Len(r.fields)
    /\ ~skipsField(r.fields[k].tag)
    /\ r.err.key.t \in {FieldKey(r.fields[k]).t} \cup {t \in Types : r.fields[k].tag = "@"}
    /\ r.err.cause \in {"ObjectNotFound", "FactoryError"}
    /\ \A i \in 1..Len(r.fields) :
          IF i < k /\ ~skipsField(r.fields[i].tag)
          THEN r.target[i] # NoVal /\ \E j \in 1..Len(r.args) : r.args[j].v = r.target[i]
          ELSE r.target[i] = NoVal

\* C21, as stated: an AutoWire that fails has stopped at the first field
\* whose resolution failed; its error names that field and has the
\* resolution error in its chain, the fields before it keep their values and
\* the fields from it on are not written.
C21_AbortCarriesError ==
    \A p \in Procs : WireFailed(p) =>
        /\ AbortsAt(procs[p].res, procs[p].res.err.field)
        /\ procs[p].res.err.cause \in procs[p].res.err.is

\* C21, amended: an AutoWire that fails has stopped at the first field whose
\* resolution failed; the message of its error names that field and holds
\* the message of the resolution error, while no error is left in its chain;
\* the fields before it keep their values and the fields from it on are not
\* written.
C21_AbortNamesError ==
    \A p \in Procs : WireFailed(p) =>
        /\ AbortsAt(procs[p].res, procs[p].res.err.field)
        /\ procs[p].res.err.is = {}

\* an AutoWire has failed at its second field after it has set the first
C21_Witness ==
    \E p \in Procs :
        /\ WireFailed(p)
        /\ procs[p].res.err.field = 2
        /\ procs[p].res.target[1] # NoVal
        /\ procs[p].res.target[2] = NoVal

(***************************************************************************)
(* Claim on the key kinds of Bind (checked under SpecBind).                *)
(***************************************************************************)
\* the step is a call of Bind whose initializer has the first result type,
\* or is an instance of the type, t
BindInfers(t) ==
    /\ last'.op = "Bind"
    /\ last'.res # "panic"
    /\ last'.key = TypeKey(t)

\* C22: Bind accepts an initializer only when the type it infers the key
\* from is a struct, an interface or a pointer; for a scalar, a slice, a map,
\* an array or a function type it returns InvalidArgs and leaves the table
\* and every entity as they were.
C22_BindRejectsKinds ==
    [][\A t \in Types : BindInfers(t) =>
          IF Kind(t) \in {"Struct", "Interface", "Ptr"}
          THEN last'.res # "InvalidArgs"
          ELSE /\ last'.res = "InvalidArgs"
               /\ entities' = entities
               /\ heap' = heap]_vars

\* with an entity bound, a Bind of a map instance has been rejected with
\* InvalidArgs
C22_Witness ==
    /\ last.op = "Bind" /\ last.res = "InvalidArgs"
    /\ last.key = TypeKey("M")
    /\ entities[last.c][TypeKey("U")] # 0

(***************************************************************************)
(* Claims on panics and on lookups by a struct value (checked under        *)
(* SpecKeys).                                                              *)
(***************************************************************************)
\* C23: no bind, query or resolving operation ends in a panic; each of them
\* returns its failure to the caller as an error.
C23_FailuresAreReturned ==
    /\ last.res # "panic"
    /\ \A p \in Procs : procs[p].res.st \in {"idle", "ok", "err"}

\* C24: a Get whose key is a value of the struct type U returns the value of
\* the entity bound under U, and fails with ObjectNotFound suggesting
\* pointer-to-U when nothing is bound under a candidate.
C24_StructValueByType ==
    \A p \in Procs :
        LET r == procs[p].res
        IN  (r.op = "Get" /\ r.st # "idle" /\ r.keys = <<ValKey("U")>>) =>
                /\ r.st \in {"ok", "err"}
                /\ r.st = "ok" => heap[r.args[1].e].key \in {ValKey("U"), TypeKey("U")}
                /\ r.st = "err" =>
                      /\ r.err.kind = "ObjectNotFound"
                      /\ r.err.possible = TypeKey("PU")

(***************************************************************************)
(* Resolve of callables with every form of results, while factories are   *)
(* bound.                                                                  *)
(***************************************************************************)
ResolveInits == {Func("U", <<>>), Func("I", <<"U">>)}
ResolveParams == {<<>>, <<"U">>, <<"I", "V">>}

NextResolve ==
    \/ \E init \in ResolveInits : Bind(1, init, FALSE, FALSE, "none")
    \/ \E p \in Procs, params \in ResolveParams, ret \in Rets : Resolve(p, 1, params, ret)
    \/ Step

SpecResolve == Init /\ [][NextResolve]_vars

\* the callable of the finished Resolve r was invoked: every parameter was
\* resolved to a value
Invoked(r) == Len(r.args) = Len(r.keys) /\ r.st # "panic"

BindsNoResult ==
    /\ last'.op \in {"Bind", "BindWithKey"}
    /\ \E prototype \in BOOLEAN, cond \in Conds :
          /\ WithCondition(cond) = "ok"
          /\ \/ Bind(last'.c, FuncNoOut, prototype, last'.override, cond)
             \/ \E key \in BindKeys : BindWithKey(last'.c, key, FuncNoOut, prototype, last'.override, cond)

\* no entity holds a factory without results, so that createValue never
\* meets one
NoResultNeverStored ==
    \A e \in 1..Len(heap) : ~declaresNoResult(heap[e].init)

\* C26, as stated: a bind of a factory that declares no result is reported
\* with InvalidReturnValueCount.
C26_NoResultIsReturnCount ==
    [][BindsNoResult => last'.res = "InvalidReturnValueCount"]_vars

\* C26, amended: a bind of a factory that declares no result is reported
\* with InvalidArgs and changes nothing, so that no entity ever holds such a
\* factory.
C26_NoResultIsInvalidArgs ==
    /\ [][BindsNoResult =>
             /\ last'.res = "InvalidArgs"
             /\ entities' = entities
             /\ heap' = heap]_vars
    /\ []NoResultNeverStored

\* with an entity bound, a bind under a key of a factory without results
\* has been rejected for its number of results
C26_Witness ==
    /\ last.op = "BindWithKey" /\ last.res = "InvalidArgs"
    /\ last.msg = "but got 0"
    /\ entities[last.c][TypeKey("U")] # 0

(***************************************************************************)
(* Two goroutines resolve two singletons that do not depend on one         *)
(* another.                                                                *)
(***************************************************************************)
ParInits == {Func("U", <<>>), Func("V", <<>>), Func("I", <<"U">>)}
ParKeys == {TypeKey("U"), TypeKey("V"), TypeKey("I")}

NextPar ==
    \/ \E init \in ParInits : Bind(1, init, FALSE, FALSE, "none")
    \/ \E p \in Procs, key \in ParKeys : Get(p, 1, key)
    \/ Step

SpecPar == Init /\ [][NextPar]_vars

\* p is inside the factory of the singleton e
Executing(p, e) ==
    /\ Busy(p)
    /\ Top(p).op = "Value" /\ Top(p).e = e /\ Top(p).pc = "run"
    /\ ~heap[e].prototype

\* q has an operation under way and no step of it can be taken
Waits(q) ==
    /\ Busy(q)
    /\ ~ENABLED (\/ lookupInstance(q)
                 \/ Value(q)
                 \/ createValue(q)
                 \/ \E outcome \in {"ok", "err", "nil"} : factoryReturn(q, outcome)
                 \/ unwind(q))

\* the entities p is creating: A, whose factory it executes, and those whose
\* factories need A, directly or through others
Creating(p) == {procs[p].stack[j].e : j \in {i \in 1..Len(procs[p].stack) : procs[p].stack[i].op = "Value"}}

\* C27: while the factory of a singleton A is executing, a goroutine that
\* resolves another entity B does not wait because of it: it waits only at
\* the lock of the entity it is about to read, and only while another
\* goroutine holds that lock and is creating that entity.
C27_NoSerialization ==
    \A p \in Procs : \A q \in Procs \ {p} : \A a \in 1..Len(heap) :
        (Executing(p, a) /\ Waits(q)) =>
            /\ Top(q).op = "Value" /\ Top(q).pc = "enter"
            /\ \E r \in Procs \ {q} :
                  /\ elock[Top(q).e] = r
                  /\ Top(q).e \in Creating(r)

\* the factories of two singletons are executing at the same time
C27_Witness ==
    \E p \in Procs : \E q \in Procs \ {p} : \E a \in 1..Len(heap), b \in 1..Len(heap) :
        /\ a # b
        /\ Executing(p, a)
        /\ Executing(q, b)

(***************************************************************************)
(* Singletons whose factories require themselves, directly or through      *)
(* another entity.                                                         *)
(***************************************************************************)
CycleInits == {Func("U", <<"U">>), Func("U", <<"I">>), Func("U", <<>>)}
CycleKeys == {TypeKey("U"), TypeKey("I")}

NextCycle ==
    \/ \E init \in CycleInits : Bind(1, init, FALSE, FALSE, "none")
    \/ \E prototype \in BOOLEAN : Bind(1, Func("I", <<"U">>), prototype, FALSE, "none")
    \/ \E p \in Procs, key \in CycleKeys : Get(p, 1, key)
    \/ Step

SpecCycle == Init /\ [][NextCycle]_vars

\* the entities the factory of e is handed: those bound in its container
\* under the types of its parameters
Requires(e) ==
    {entities[heap[e].c][TypeKey(heap[e].init.params[j])] : j \in 1..Len(heap[e].init.params)} \ {0}

RequiresAll(S) == UNION {Requires(e) : e \in S}

\* e is a singleton whose factory requires e itself, directly or through
\* the factories of others
RequiresItself(e) ==
    /\ ~heap[e].prototype
    /\ e \in Requires(e) \cup RequiresAll(Requires(e)) \cup RequiresAll(RequiresAll(Requires(e)))

\* p is about to take the lock of a singleton that p itself holds
SelfWait(p) ==
    /\ Busy(p)
    /\ Top(p).op = "Value" /\ Top(p).pc = "enter"
    /\ ~heap[Top(p).e].prototype
    /\ elock[Top(p).e] = p

\* p resolves an entity again while it is creating it
Reenters(p) ==
    /\ Busy(p)
    /\ Top(p).op = "Value" /\ Top(p).pc = "enter"
    /\ \E j \in 1..(Len(procs[p].stack) - 1) :
          procs[p].stack[j].op = "Value" /\ procs[p].stack[j].e = Top(p).e

\* C28: a singleton whose factory requires its own identity never completes
\* its resolution: it never gets a value and supplies none; the goroutine
\* that reaches it again while creating it stops at the entity's lock and
\* stays there for ever; and a Get of a singleton that requires itself
\* directly returns neither a value nor an error.
C28_SelfRequiringNeverCompletes ==
    /\ [](\A e \in 1..Len(heap) : RequiresItself(e) =>
             /\ heap[e].value = NoVal
             /\ \A p \in Procs :
                   /\ \A j \in 1..Len(procs[p].res.args) : procs[p].res.args[j].e # e
                   /\ \A i \in 1..Len(procs[p].stack) : \A j \in 1..Len(procs[p].stack[i].args) :
                         procs[p].stack[i].args[j].e # e)
    /\ [](\A p \in Procs : (Reenters(p) /\ ~heap[Top(p).e].prototype) => SelfWait(p))
    /\ [][\A p \in Procs : SelfWait(p) => (procs'[p] = procs[p] /\ elock'[Top(p).e] = p)]_vars
    /\ [](\A p \in Procs :
             LET r == procs[p].res
             IN  (r.op = "Get" /\ r.st # "idle" /\ r.from[1] # 0) =>
                     ~(RequiresItself(r.from[1]) /\ r.from[1] \in Requires(r.from[1])))

\* a goroutine creating U, whose factory needs I, whose factory needs U, has
\* come back to U and waits at the lock it holds
C28_Witness ==
    \E p \in Procs :
        /\ SelfWait(p)
        /\ Len(procs[p].stack) = 4
        /\ procs[p].stack[2].op = "Value" /\ procs[p].stack[2].e = Top(p).e
        /\ procs[p].stack[3].op = "Value" /\ procs[p].stack[3].e # Top(p).e

(***************************************************************************)
(* Claim on CanOverride (checked under SpecBind).                          *)
(***************************************************************************)
\* the step is a bind of an identity that is bound, and it reaches the test
\* of the bound entity's flag: its arguments are valid and its predicate, if
\* it has one, holds
ValidRebind ==
    /\ last'.op \in {"Bind", "BindWithKey", "BindValue"}
    /\ last'.res \in {"bound", "RepeatedBind"}
    /\ entities[last'.c][last'.key] # 0

\* C29: for an identity bound in the container CanOverride returns the
\* overridable flag of the bound entity, which is true exactly when a valid
\* rebind of the identity issued next is accepted and false exactly when it
\* fails with RepeatedBind; for an identity that is not bound it reports
\* ObjectNotFound.
C29_CanOverridePredictsRebind ==
    /\ [][last'.op = "CanOverride" =>
             IF entities[last'.c][last'.key] # 0
             THEN /\ last'.res = "ok"
                  /\ last'.override = heap[entities[last'.c][last'.key]].overridable
                  /\ last'.override <=> Unconditional(last'.c, last'.key) = "bound"
                  /\ ~last'.override <=> Unconditional(last'.c, last'.key) = "RepeatedBind"
             ELSE last'.res = "ObjectNotFound"]_vars
    /\ [][ValidRebind =>
             /\ CanOverride(last'.c, last'.key).res = "ok"
             /\ last'.res = "bound" <=> CanOverride(last'.c, last'.key).flag
             /\ last'.res = "RepeatedBind" <=> ~CanOverride(last'.c, last'.key).flag]_vars

\* CanOverride has answered false for a bound identity
C29_Witness ==
    /\ last.op = "CanOverride" /\ last.res = "ok"
    /\ ~last.override
    /\ entities[last.c][last.key] # 0
    /\ ~heap[entities[last.c][last.key]].overridable

(***************************************************************************)
(* containerImpl: the container that keeps its entities in the map         *)
(* objects and in the list objectSlices.                                   *)
(***************************************************************************)
SlotKeys == {TypeKey("U"), StrKey("k")}
SlotValueKeys == {StrKey("k"), StrKey("j"), StrKey("@"), StrKey("")}
SlotConds == {cond \in Conds : WithCondition(cond) = "ok"}

\* the address of a newly allocated Entity: the first that no stored
\* entity has
newPtr ==
    LET free == {a \in 1..(Len(objectSlices) + 1) : \A i \in 1..Len(objectSlices) : objectSlices[i].ptr # a}
    IN  CHOOSE a \in free : \A b \in free : a <= b

\* a pointer to an Entity of containerImpl: its address and the fields the
\* table uses; index counts from 0
SlotEntity(ptr, key, override, index) == [ptr |-> ptr, key |-> key, override |-> override, index |-> index]

\* an overriding bind that leaves the new entity its own index
takeIndex_Own(entity, original) == entity

\* entity.index = original.index
takeIndex(entity, original) == [entity EXCEPT !.index = original.index]

\* the part of both binds under impl.lock: an existing entity that is not
\* overridable refuses the bind; an overridable one gives its index and its
\* slot to the new entity; a new key appends
storeEntity(op, key, override, cond, entity) ==
    IF key \in DOMAIN objects
    THEN LET original == objects[key]
         IN  IF ~original.override
             THEN /\ last' = [op |-> op, c |-> 0, key |-> key, override |-> override, cond |-> cond,
                              res |-> "RepeatedBind", msg |-> ""]
                  /\ UNCHANGED <<objects, objectSlices>>
             ELSE /\ objects' = [objects EXCEPT ![key] = takeIndex(entity, original)]
                  /\ objectSlices' = [objectSlices EXCEPT ![original.index + 1] = takeIndex(entity, original)]
                  /\ last' = [op |-> op, c |-> 0, key |-> key, override |-> override, cond |-> cond,
                              res |-> "ok", msg |-> ""]
    ELSE /\ objects' = [k \in DOMAIN objects \cup {key} |-> IF k = key THEN entity ELSE objects[k]]
         /\ objectSlices' = Append(objectSlices, entity)
         /\ last' = [op |-> op, c |-> 0, key |-> key, override |-> override, cond |-> cond,
                     res |-> "ok", msg |-> ""]

SlotsRest == <<nconts, parent, entities, heap, elock, calls, running, failed, provs, procs, nops, lock>>

\* containerImpl.bindWithOverride: the predicate is evaluated first; its
\* error is returned and its false ends the bind, both before the table
containerImpl_bindWithOverride(key, override, cond) ==
    /\ IF matched(cond) # "matched"
       THEN /\ last' = [op |-> "containerImpl.bindWithOverride", c |-> 0, key |-> key, override |-> override,
                        cond |-> cond,
                        res |-> IF matched(cond) = "unmatched" THEN "skipped" ELSE matched(cond), msg |-> ""]
            /\ UNCHANGED <<objects, objectSlices>>
       ELSE storeEntity("containerImpl.bindWithOverride", key, override, cond,
                        SlotEntity(newPtr, key, override, Len(objectSlices)))
    /\ UNCHANGED SlotsRest

\* containerImpl.bindValueOverride: a nil value and the keys "" and "@" are
\* refused before the table
containerImpl_bindValueOverride(key, value, override) ==
    /\ IF value = NoVal \/ key \in {StrKey(""), StrKey("@")}
       THEN /\ last' = [op |-> "containerImpl.bindValueOverride", c |-> 0, key |-> key, override |-> override,
                        cond |-> "none", res |-> "InvalidArgs", msg |-> ""]
            /\ UNCHANGED <<objects, objectSlices>>
       ELSE storeEntity("containerImpl.bindValueOverride", key, override, "none",
                        SlotEntity(newPtr, key, override, Len(objectSlices)))
    /\ UNCHANGED SlotsRest

NextSlots ==
    \/ \E key \in SlotKeys, override \in BOOLEAN, cond \in SlotConds :
          containerImpl_bindWithOverride(key, override, cond)
    \/ \E key \in SlotValueKeys, value \in BindValues, override \in BOOLEAN :
          containerImpl_bindValueOverride(key, value, override)

SpecSlots == Init /\ [][NextSlots]_vars

\* the step was a bind of containerImpl
SlotBind == last'.op \in {"containerImpl.bindWithOverride", "containerImpl.bindValueOverride"}

\* the map and the list hold the same entities at the recorded slots
SlotsAgree ==
    /\ \A k \in DOMAIN objects :
          /\ objects[k].key = k
          /\ objects[k].index + 1 \in 1..Len(objectSlices)
          /\ objectSlices[objects[k].index + 1] = objects[k]
          /\ \A i \in 1..Len(objectSlices) : objectSlices[i].ptr = objects[k].ptr => i = objects[k].index + 1
    /\ \A i \in 1..Len(objectSlices) :
          /\ objectSlices[i].key \in DOMAIN objects
          /\ objects[objectSlices[i].key] = objectSlices[i]

\* C30: after any sequence of successful, failed and overriding binds the
\* map and the list hold exactly the same entities: every map entry is in
\* exactly one slot of the list, the one its index records, and the list
\* holds nothing else; an override puts the new entity in the slot of the
\* one it replaces and changes no other position; a bind of a new key
\* appends; a failed or skipped bind changes neither.
C30_MapAndListAgree ==
    /\ []SlotsAgree
    /\ [][SlotBind =>
            IF last'.res # "ok"
            THEN objects' = objects /\ objectSlices' = objectSlices
            ELSE IF last'.key \in DOMAIN objects
            THEN LET slot == objects[last'.key].index + 1
                 IN  /\ Len(objectSlices') = Len(objectSlices)
                     /\ objectSlices'[slot] = objects'[last'.key]
                     /\ objectSlices'[slot].ptr # objectSlices[slot].ptr
                     /\ \A i \in 1..Len(objectSlices) : i # slot => objectSlices'[i] = objectSlices[i]
                     /\ DOMAIN objects' = DOMAIN objects
                     /\ \A k \in DOMAIN objects : k # last'.key => objects'[k] = objects[k]
            ELSE /\ objectSlices' = Append(objectSlices, objects'[last'.key])
                 /\ DOMAIN objects' = DOMAIN objects \cup {last'.key}
                 /\ \A k \in DOMAIN objects : objects'[k] = objects[k]]_vars

\* an override has put a new entity in the first of three slots
C30_Witness ==
    /\ last.op = "containerImpl.bindWithOverride" /\ last.res = "ok"
    /\ Len(objectSlices) = 3
    /\ objects[last.key].index = 0
    /\ objectSlices[1].ptr > 3

(***************************************************************************)
(* SpecScope: callers calling on one container with and without providers  *)
(* over several factories, while factories are bound.                      *)
(***************************************************************************)
ScopeInits == {Func("I", <<"Context">>), Func("PI", <<>>)}
ScopeLists == {<<Func("I", <<>>), Func("PI", <<>>)>>, <<Func("PI", <<>>), Func("I", <<>>)>>,
               <<Func("Context", <<>>)>>}
ScopeParams == {<<"PI">>, <<"I">>, <<"Context">>}

NextScope ==
    \/ \E init \in ScopeInits : Bind(1, init, FALSE, FALSE, "none")
    \/ \E inits \in ScopeLists : Provider(1, inits)
    \/ \E p \in Procs, params \in ScopeParams, prov \in 0..Len(provs) : CallWithProvider(p, 1, params, prov)
    \/ Step

SpecScope == Init /\ [][NextScope]_vars

\* the entities of level S (a provider's list or a table) stored under
\* candidates of keys
MatchesIn(S, keys) == {e \in S : \E j \in 1..Len(keys) : heap[e].key = keys[j]}

\* the earliest candidate of keys under which level S has an entity
EarliestIn(S, keys) ==
    keys[CHOOSE j \in 1..Len(keys) :
            /\ \E e \in S : heap[e].key = keys[j]
            /\ \A i \in 1..(j - 1) : \A e \in S : heap[e].key # keys[i]]

\* the entities of the table of container c
TableOf(c) == {entities[c][k] : k \in AllKeys} \ {0}

\* C31: within one level the match is chosen in candidate order, in the
\* scope and in the table alike: the entity a finished call took for its
\* parameter is the one stored under the earliest candidate that the level
\* it was found in has an entity for, whatever the order of the provider's
\* factories or of the binds.
C31_EarliestCandidateWins ==
    \A p \in Procs :
        LET r == procs[p].res
            keys == resolveLookupKeys(r.keys[1]).keys
            scope == IF r.prov = 0 THEN {} ELSE Range(provs[r.prov])
            level == IF MatchesIn(scope, keys) # {} THEN scope ELSE TableOf(r.c)
        IN  (r.op = "Call" /\ r.st # "idle" /\ Len(r.args) = 1) =>
                (MatchesIn(level, keys) # {} => heap[r.args[1].e].key = EarliestIn(level, keys))

\* e is an entity of some provider
ScopeEntity(e) == \E a \in 1..Len(provs) : e \in Range(provs[a])

\* C32, as stated: a scope entity is a singleton for the lifetime of its
\* provider: its factory is invoked at most once over all the calls that
\* pass the provider and all of them receive the same value, while a
\* provider built separately from the same factories has entities, and so
\* values, of its own.
C32_ScopeFactoryOnce ==
    /\ \A e \in Ents : ScopeEntity(e) =>
          /\ ~heap[e].prototype
          /\ calls[e] <= 1
          /\ \A s, t \in Filled : SlotOf(s).e = e /\ SlotOf(t).e = e => SlotOf(s).v = SlotOf(t).v
    /\ \A a, b \in 1..Len(provs) : a # b => Range(provs[a]) \cap Range(provs[b]) = {}

\* C32, amended: a scope entity is a singleton for the lifetime of its
\* provider: its factory is invoked again only after an invocation that
\* failed or returned nil, at most one invocation returns a value, every
\* value a call receives from the entity is that value, and a call that
\* passes a provider takes from the entities of no other provider; a
\* provider built separately from the same factories has entities, and so
\* values, of its own.
C32_ScopeSingletonOncePerValue ==
    /\ \A e \in Ents : ScopeEntity(e) =>
          /\ ~heap[e].prototype
          /\ calls[e] <= failed[e] + running[e] + 1
          /\ calls[e] > failed[e] + running[e] => heap[e].value # NoVal
          /\ \A s \in Filled : (SlotOf(s).e = e /\ SlotOf(s).v # NoVal) => SlotOf(s).v = heap[e].value
    /\ \A a, b \in 1..Len(provs) : a # b => Range(provs[a]) \cap Range(provs[b]) = {}
    /\ \A p \in Procs : \A j \in 1..Len(procs[p].res.args) :
          ScopeEntity(procs[p].res.args[j].e) =>
              procs[p].res.prov # 0 /\ procs[p].res.args[j].e \in Range(provs[procs[p].res.prov])

\* two calls that passed the same provider hold the one value its factory
\* made, while the entity of a second provider over the same factory holds
\* no value
C32_Witness ==
    \E p, q \in Procs, e, x \in Ents :
        /\ p # q /\ e # x
        /\ Len(provs) = 2 /\ provs[1] = <<e>> /\ provs[2] = <<x>>
        /\ heap[e].init = heap[x].init
        /\ procs[p].res.st = "ok" /\ procs[q].res.st = "ok"
        /\ procs[p].res.prov = 1 /\ procs[q].res.prov = 1
        /\ procs[p].res.args = <<[v |-> heap[e].value, e |-> e]>>
        /\ procs[q].res.args = procs[p].res.args
        /\ heap[e].value # NoVal
        /\ heap[x].value = NoVal

(***************************************************************************)
(* bindWithOverride step by step: the predicate and newEntity before the   *)
(* lock, then Lock, the test of the table, the write, and the deferred     *)
(* Unlock.                                                                 *)
(***************************************************************************)
\* the result of a bind: the entity it made, 0 if none, and its error
bindResult(c, key, e, err) ==
    [NoRes EXCEPT !.st = IF err = NoErr THEN "ok" ELSE "err", !.op = "Bind", !.c = c, !.keys = <<key>>,
                  !.from = <<e>>, !.err = err]

\* Bind of a valid factory up to impl.lock.Lock(): the predicate is run
\* through Call, which reads the table when the predicate has a parameter,
\* and the entity is made
bindBegin(p, c, init, prototype, override, cond) ==
    /\ ~Busy(p)
    /\ c <= nconts
    /\ WithCondition(cond) = "ok"
    /\ init.kind = "func" /\ ~declaresNoResult(init) /\ isValidKeyKind(Kind(init.out))
    /\ Allocated < MaxBound
    /\ cond = "fail" => readable(c)
    /\ IF matched(cond) # "matched"
       THEN /\ procs' = [procs EXCEPT ![p] = [stack |-> <<>>,
                  res |-> bindResult(c, TypeKey(init.out), 0,
                             IF matched(cond) = "unmatched" THEN NoErr
                             ELSE Err(matched(cond), "ObjectNotFound", NoKey))]]
            /\ HeapUnchanged
       ELSE /\ Alloc(newEntity(c, TypeKey(init.out), init, prototype, override))
            /\ procs' = [procs EXCEPT ![p] = [stack |-> <<[Frame("Bind", c, <<TypeKey(init.out)>>, 0,
                                                             Len(heap) + 1, "lock") EXCEPT !.from = <<0>>]>>,
                                              res |-> NoRes]]
    /\ last' = NoLast
    /\ UNCHANGED <<lock, objects, objectSlices, nconts, parent, entities, provs, nops>>

\* a Lock that does not wait for the holder
lockable_Always(c) == c = c

\* impl.lock.Lock() returns once no one holds the lock
lockable(c) == lock[c] = 0

\* impl.lock.Lock()
bindLock(p) ==
    /\ Busy(p)
    /\ LET f == Top(p)
       IN  /\ f.op = "Bind" /\ f.pc = "lock"
           /\ lockable(f.c)
           /\ lock' = [lock EXCEPT ![f.c] = p]
           /\ procs' = [procs EXCEPT ![p].stack[1] = [f EXCEPT !.pc = "check"]]
    /\ last' = NoLast
    /\ HeapUnchanged
    /\ UNCHANGED <<objects, objectSlices, nconts, parent, entities, provs, nops>>

\* the deferred Unlock releases the lock its caller holds
unlocked(p, c) == [lock EXCEPT ![c] = IF @ = p THEN 0 ELSE @]

\* bindWithOverride that returns without the deferred Unlock
bindCheck_KeepsLock(p) ==
    /\ Busy(p)
    /\ LET f == Top(p)
           key == f.keys[1]
           v == entities[f.c][key]
       IN  /\ f.op = "Bind" /\ f.pc = "check"
           /\ IF v # 0 /\ ~heap[v].overridable
              THEN /\ procs' = [procs EXCEPT ![p] = [stack |-> <<>>,
                          res |-> bindResult(f.c, key, f.e, Err("RepeatedBind", "RepeatedBind", key))]]
                   /\ UNCHANGED lock
              ELSE /\ procs' = [procs EXCEPT ![p].stack[1] = [f EXCEPT !.pc = "insert", !.from = <<v>>]]
                   /\ UNCHANGED lock
    /\ last' = NoLast
    /\ HeapUnchanged
    /\ UNCHANGED <<objects, objectSlices, nconts, parent, entities, provs, nops>>

\* v, ok := impl.entities[entity.key]: an entity that is not overridable
\* ends the bind with RepeatedBind
bindCheck(p) ==
    /\ Busy(p)
    /\ LET f == Top(p)
           key == f.keys[1]
           v == entities[f.c][key]
       IN  /\ f.op = "Bind" /\ f.pc = "check"
           /\ IF v # 0 /\ ~heap[v].overridable
              THEN /\ procs' = [procs EXCEPT ![p] = [stack |-> <<>>,
                          res |-> bindResult(f.c, key, f.e, Err("RepeatedBind", "RepeatedBind", key))]]
                   /\ lock' = unlocked(p, f.c)
              ELSE /\ procs' = [procs EXCEPT ![p].stack[1] = [f EXCEPT !.pc = "insert", !.from = <<v>>]]
                   /\ UNCHANGED lock
    /\ last' = NoLast
    /\ HeapUnchanged
    /\ UNCHANGED <<objects, objectSlices, nconts, parent, entities, provs, nops>>

\* impl.entities[key] = entity, and the deferred Unlock
bindInsert(p) ==
    /\ Busy(p)
    /\ LET f == Top(p)
       IN  /\ f.op = "Bind" /\ f.pc = "insert"
           /\ entities' = [entities EXCEPT ![f.c][f.keys[1]] = f.e]
           /\ procs' = [procs EXCEPT ![p] = [stack |-> <<>>, res |-> bindResult(f.c, f.keys[1], f.e, NoErr)]]
           /\ lock' = unlocked(p, f.c)
    /\ last' = NoLast
    /\ HeapUnchanged
    /\ UNCHANGED <<objects, objectSlices, nconts, parent, provs, nops>>

(***************************************************************************)
(* SpecLock: callers binding and resolving on one container at the same    *)
(* time.                                                                   *)
(***************************************************************************)
LockInits == {Func("U", <<>>), Func("I", <<"U">>)}
LockConds == {"none", "false", "fail"}
LockKeys == {TypeKey("U"), TypeKey("I")}

NextLock ==
    \/ \E p \in Procs, init \in LockInits, override \in BOOLEAN, cond \in LockConds :
          bindBegin(p, 1, init, FALSE, override, cond)
    \/ \E p \in Procs : bindLock(p)
    \/ \E p \in Procs : bindCheck(p)
    \/ \E p \in Procs : bindInsert(p)
    \/ \E p \in Procs, key \in LockKeys : Get(p, 1, key)
    \/ Step

SpecLock == Init /\ [][NextLock]_vars

\* p's latest operation was a bind of key in c that asked for no override
\* and has returned
BindDone(p, c, key) ==
    LET r == procs[p].res
    IN  /\ r.op = "Bind" /\ r.c = c /\ r.keys = <<key>>
        /\ r.from[1] # 0 /\ ~heap[r.from[1]].overridable

\* p is between Lock and Unlock of c
InLock(p, c) == Busy(p) /\ Top(p).op = "Bind" /\ Top(p).c = c /\ Top(p).pc \in {"check", "insert"}

\* p takes a step of lookupEntity on c
Reads(p, c) ==
    /\ Busy(p)
    /\ Top(p).pc = "args" /\ Top(p).i <= Len(Top(p).keys) /\ Top(p).cur = c
    /\ procs'[p] # procs[p]

\* C33: the test and the write of a bind are one step under the write lock:
\* of the binds of one identity that ask for no override at most one
\* succeeds, the others fail with RepeatedBind, the table holds the entity of
\* the one that succeeded, at most one caller is between Lock and Unlock,
\* the table changes only by the write of the caller that holds the lock,
\* and no lookup reads the table of a container while a caller is between
\* Lock and Unlock.
C33_BindIsAtomic ==
    /\ [](\A c \in Containers, key \in AllKeys :
            /\ \A p \in Procs : \A q \in Procs \ {p} :
                  (BindDone(p, c, key) /\ BindDone(q, c, key)) =>
                      ~(procs[p].res.st = "ok" /\ procs[q].res.st = "ok")
            /\ \A p \in Procs : BindDone(p, c, key) =>
                  /\ procs[p].res.st = "ok" => entities[c][key] = procs[p].res.from[1]
                  /\ procs[p].res.st = "err" =>
                        /\ procs[p].res.err.kind = "RepeatedBind"
                        /\ entities[c][key] \notin {0, procs[p].res.from[1]})
    /\ [](\A c \in Containers : \A p \in Procs : \A q \in Procs \ {p} : ~(InLock(p, c) /\ InLock(q, c)))
    /\ [][\A c \in Containers :
            /\ entities'[c] # entities[c] => \E p \in Procs : InLock(p, c) /\ procs'[p].res.st = "ok"
            /\ \A p \in Procs : Reads(p, c) => \A q \in Procs : ~InLock(q, c)]_vars

\* two callers have bound the same identity at the same time: one bind has
\* succeeded and the other has failed, both having made their entity before
\* either took the lock
C33_Witness ==
    \E p \in Procs : \E q \in Procs \ {p} : \E key \in AllKeys :
        /\ BindDone(p, 1, key) /\ BindDone(q, 1, key)
        /\ procs[p].res.st = "ok" /\ procs[q].res.st = "err"
        /\ procs[q].res.from[1] < procs[p].res.from[1]

\* e is a singleton bound in the table of its container
TableSingleton(e) == ~heap[e].prototype /\ entities[heap[e].c][heap[e].key] = e

\* C34: the scope is threaded through nested factory resolution: every
\* factory that a call with a scope runs, that of a singleton bound in the
\* container included, gets its parameters from the scope's entities first
\* and from the table after; the value it makes is cached in the container's
\* entity and is what every later call receives from it, whatever scope it
\* passes; and a singleton that holds a value is returned as it is, its
\* factory not invoked, whatever scope the call passes.
C34_ScopeReachesFactories ==
    /\ [](\A p \in Procs : \A i \in 2..Len(procs[p].stack) :
            LET f == procs[p].stack[i]
            IN  /\ f.prov = procs[p].stack[1].prov
                /\ \A j \in 1..Len(f.args) :
                      f.args[j].e = lookupEntity(f.c, resolveLookupKeys(f.keys[j]).keys, procs[p].stack[1].prov))
    /\ [](\A p \in Procs : \A j \in 1..Len(procs[p].res.args) :
            LET a == procs[p].res.args[j]
            IN  (TableSingleton(a.e) /\ a.v # NoVal) => a.v = heap[a.e].value)
    /\ [][\A e \in Ents : (TableSingleton(e) /\ heap[e].value # NoVal) =>
            heap'[e].value = heap[e].value /\ calls'[e] = calls[e]]_vars

\* a singleton of the container was made during a call with a scope from the
\* scope's entity, the container's own entity of that type never invoked,
\* and a later call without a scope has received the same value
C34_Witness ==
    \E p \in Procs : \E q \in Procs \ {p} : \E e, x \in Ents :
        /\ TableSingleton(e) /\ heap[e].init.params = <<"Context">>
        /\ heap[e].value # NoVal /\ calls[e] = 1
        /\ ScopeEntity(x) /\ heap[x].key = TypeKey("Context") /\ calls[x] = 1 /\ heap[x].value # NoVal
        /\ calls[entities[1][TypeKey("Context")]] = 0
        /\ procs[p].res.st = "ok" /\ procs[p].res.prov # 0
        /\ procs[p].res.args = <<[v |-> heap[e].value, e |-> e]>>
        /\ procs[q].res.st = "ok" /\ procs[q].res.prov = 0
        /\ procs[q].res.args = procs[p].res.args

\* p is at the lock of the singleton e, which holds no value
AtUnmade(p, e) ==
    /\ Busy(p)
    /\ Top(p).op = "Value" /\ Top(p).pc = "enter" /\ Top(p).e = e
    /\ ~heap[e].prototype /\ heap[e].value = NoVal

\* C35: a singleton is cached only on a successful result that is not nil:
\* an invocation that fails or returns nil leaves the entity without a
\* value, a value appears only as an invocation returns one, a resolution
\* that finds the entity without a value goes on to invoke the factory
\* whatever invocations there were before, and no two invocations of the
\* factory are in progress at once.
C35_CachedOnlyOnSuccess ==
    /\ [][\A e \in Ents : ~heap[e].prototype =>
            /\ failed'[e] > failed[e] => heap'[e].value = NoVal /\ heap[e].value = NoVal
            /\ (heap[e].value = NoVal /\ heap'[e].value # NoVal) =>
                  failed'[e] = failed[e] /\ running'[e] = running[e] - 1]_vars
    /\ [][\A p \in Procs : \A e \in Ents : (AtUnmade(p, e) /\ procs'[p] # procs[p]) =>
            /\ Len(procs'[p].stack) = Len(procs[p].stack)
            /\ procs'[p].stack[Len(procs[p].stack)] = [Top(p) EXCEPT !.pc = "args"]]_vars
    /\ [](\A e \in Ents : ~heap[e].prototype => running[e] <= 1 /\ calls[e] <= failed[e] + 1)

\* the factory of a singleton has run twice, a failure and then a success
C35_Witness ==
    \E e \in Ents :
        /\ ~heap[e].prototype /\ heap[e].init.kind = "func"
        /\ calls[e] = 2 /\ failed[e] = 1 /\ running[e] = 0
        /\ heap[e].value # NoVal

\* the steps of caller p once its operation has begun
ProcStep(p) ==
    \/ bindLock(p)
    \/ bindCheck(p)
    \/ bindInsert(p)
    \/ lookupInstance(p)
    \/ Value(p)
    \/ createValue(p)
    \/ \E outcome \in {"ok", "err", "nil"} : factoryReturn(p, outcome)
    \/ unwind(p)

\* every goroutine that can run does run, and every factory returns
FairLock == SpecLock /\ \A p \in Procs : WF_vars(ProcStep(p))

\* p is inside a factory
InFactory(p) == \E i \in 1..Len(procs[p].stack) : procs[p].stack[i].op = "Value" /\ procs[p].stack[i].pc = "run"

\* C36: no lock of a container is held while a factory runs or while a
\* predicate is evaluated, and every bind and every resolution that a caller
\* has begun returns, whatever the other callers do in the meantime.
C36_EveryOperationReturns ==
    /\ [](\A p \in Procs : \A c \in Containers :
            lock[c] = p => (InLock(p, c) /\ ~InFactory(p)))
    /\ \A p \in Procs : Busy(p) ~> ~Busy(p)

\* a caller that holds the lock of a singleton it is creating has to read
\* the container for the factory's parameter while the other caller holds
\* the write lock of the container
C36_Witness ==
    \E p \in Procs : \E q \in Procs \ {p} :
        /\ Busy(p)
        /\ Top(p).op = "Value" /\ Top(p).pc = "args" /\ Top(p).i <= Len(Top(p).keys)
        /\ elock[Top(p).e] = p
        /\ InLock(q, 1)

(***************************************************************************)
(* SpecInherit: one caller resolving on a container and on a child made by *)
(* Extend, with and without a provider, while factories are bound on both. *)
(***************************************************************************)
InheritInits == {Func("I", <<"Context">>), Func("Context", <<>>)}
InheritKeys == {TypeKey("I"), TypeKey("Container"), TypeKey("Context"), TypeKey("Binder"), TypeKey("Resolver")}

NextInherit ==
    \/ \E c \in 1..nconts, init \in InheritInits : Bind(c, init, FALSE, FALSE, "none")
    \/ Extend(1)
    \/ \E c \in 1..nconts : Provider(c, <<Func("Context", <<>>)>>)
    \/ \E c \in 1..nconts, key \in InheritKeys : Get(1, c, key)
    \/ \E c \in 1..nconts, prov \in 0..Len(provs) : CallWithProvider(1, c, <<"I">>, prov)
    \/ Step

SpecInherit == Init /\ [][NextInherit]_vars

\* the entity lookupInstance finds for keys from container c on with no
\* provider: the first one in the tables of c and its ancestors
RECURSIVE firstInChain(_, _, _)
firstInChain(c, keys, hops) ==
    IF firstInTable(c, keys) # 0 THEN firstInTable(c, keys)
    ELSE IF parent[c] = 0 \/ hops = 0 THEN 0
    ELSE firstInChain(parent[c], keys, hops - 1)

\* the Value frame f of caller p, above the frame g, runs an entity that g's
\* lookup found in the table of an ancestor
FromAncestor(f, g) ==
    /\ heap[f.e].c # g.c
    /\ ~(g.prov # 0 /\ f.e \in Range(provs[g.prov]))

\* C37: when a lookup falls through to a parent the scope is dropped: the
\* entity found there resolves the parameters of its factory in its own
\* container and that container's ancestors, with no provider, so that what
\* it is handed is what the owning container itself would find, never an
\* entity of the scope or of the child; and the value of a singleton that a
\* call on the child receives is the value cached in the parent's entity.
C37_ParentResolvesOnItsOwn ==
    /\ \A p \in Procs : \A i \in 2..Len(procs[p].stack) :
          LET f == procs[p].stack[i]
              g == procs[p].stack[i - 1]
          IN  /\ f.c = heap[f.e].c
              /\ FromAncestor(f, g) =>
                    /\ f.prov = 0
                    /\ \A j \in 1..Len(f.args) :
                          /\ f.args[j].e = firstInChain(f.c, resolveLookupKeys(f.keys[j]).keys, MaxDepth)
                          /\ ~ScopeEntity(f.args[j].e)
                          /\ heap[f.args[j].e].c = f.c
    /\ \A p \in Procs : \A j \in 1..Len(procs[p].res.args) :
          LET a == procs[p].res.args[j]
          IN  (TableSingleton(a.e) /\ a.v # NoVal) => a.v = heap[a.e].value

\* a call on the child that passed a scope holding a context has received
\* the singleton of the parent, made from the parent's own context: the
\* scope's entity was never invoked
C37_Witness ==
    \E e, x \in Ents :
        LET r == procs[1].res
        IN  /\ r.op = "Call" /\ r.st = "ok" /\ r.c = 2 /\ r.prov = 1
            /\ r.args = <<[v |-> heap[e].value, e |-> e]>>
            /\ heap[e].c = 1 /\ heap[e].value # NoVal /\ heap[e].init.params = <<"Context">>
            /\ provs[1] = <<x>> /\ heap[x].key = TypeKey("Context") /\ calls[x] = 0
            /\ calls[entities[1][TypeKey("Context")]] = 1

\* the value that stands for container c itself
Self(c) == Lit(SelfInit("Container", c).ret)

\* C38: a container made by Extend has in its table its own Container and
\* nothing else; a Get of the Container type on the child returns the child
\* itself, from the child's entity, and a Get of the Binder, Resolver or
\* context type on the child succeeds with the instance of the ancestor,
\* from the ancestor's entity, unless the type is bound on the child, in
\* which case the child's entity supplies it.
C38_ChildBindsOnlyItself ==
    /\ [][nconts' = nconts + 1 =>
            \A k \in AllKeys : entities'[nconts'][k] # 0 <=> k = TypeKey("Container")]_vars
    /\ [](LET r == procs[1].res
          IN  (r.op = "Get" /\ r.st # "idle" /\ r.c > 1 /\ r.keys[1] \in InheritKeys \ {TypeKey("I")}) =>
                  /\ (r.keys[1] # TypeKey("Context") \/ entities[r.c][r.keys[1]] = 0) => r.st = "ok"
                  /\ r.st = "ok" =>
                        LET a == r.args[1]
                        IN  /\ heap[a.e].key = r.keys[1]
                            /\ r.keys[1] = TypeKey("Container") => a.v = Self(r.c) /\ heap[a.e].c = r.c
                            /\ r.keys[1] \in {TypeKey("Binder"), TypeKey("Resolver")} =>
                                  a.v = Self(parent[r.c]) /\ a.e = entities[parent[r.c]][r.keys[1]]
                            /\ r.keys[1] = TypeKey("Context") =>
                                  /\ entities[r.c][r.keys[1]] = 0 =>
                                        a.v = Lit("background") /\ a.e = entities[parent[r.c]][r.keys[1]]
                                  /\ heap[a.e].c = r.c => a.e = entities[r.c][r.keys[1]])

\* a Get of the Binder type on the child has returned the parent
C38_Witness ==
    LET r == procs[1].res
    IN  /\ r.op = "Get" /\ r.st = "ok" /\ r.c = 2 /\ r.keys = <<TypeKey("Binder")>>
        /\ r.args[1].v = Self(1)
        /\ entities[2][TypeKey("Container")] # 0
        /\ entities[2][TypeKey("Binder")] = 0

====
